---- MODULE Spec2Model ----
(***************************************************************************)
(* Model of the scientific-judgment deliberation system:                   *)
(*   - the phase state machine and the debate graph (orchestration/),      *)
(*   - the publishability gate (publishability.py),                        *)
(*   - the append-only review store (persistence/reviews_repo.py),         *)
(*   - the web job tracker (web/app.py, persistence/jobs_repo.py).         *)
(*                                                                         *)
(* Texts are sequences of tokens; the tokens " " and "\n" are whitespace.  *)
(* JSON values are tagged records [t |-> "null" | "list" | "dict" | "str"  *)
(* | "int", v |-> ...], so that isinstance tests are tests on the tag.     *)
(***************************************************************************)
EXTENDS Integers, Sequences, FiniteSets, TLC

\* ------------------------------------------------------------------ bounds
\* Most operations issued to the review store, all clients together.
MaxOps == 3
\* Most list entries drawn for the publishability gate.
MaxList == 1
\* Most progress updates of one job waiting to run.
MaxPending == 1
\* Most applications of advance_phase in one walk through the phases.
MaxSteps == 10
\* Most deliveries of durable writes to the store, all writes together.
MaxDeliveries == 3

\* ------------------------------------------------------------------- state
VARIABLES
    st,         \* DebateState of the run in progress
    ref,        \* the same run with every callback invocation returning normally
    node,       \* next node of the debate graph ("END" after it, "FAILED" on an exception)
    now,        \* wall clock read by datetime.now()
    callbacks,  \* _PROGRESS_CALLBACKS: thread id -> callback
    pub_in,     \* arguments of a call of evaluate_publishability
    pub_out,    \* the PublishabilityResult it returned (NoResult before it returns)
    walk,       \* repeated application of advance_phase: first input, phases returned so far
    db,         \* the tables of the review store
    cl,         \* the clients of the review store: operation in progress and its locals
    uuid,       \* number of ids drawn with uuid4()
    jobs,       \* _JOBS: job id -> ReviewJob
    task,       \* the task of each job: where it is suspended and the durable writes it awaits
    pending,    \* per job, the progress updates scheduled by its callback and not yet run
    detached,   \* durable writes of detached tasks, in flight
    cfg,        \* which repositories are configured, and whether the durable store fails
    job_rows,   \* durable table review_jobs: job id -> row
    job_events, \* durable table review_job_events
    running,    \* the job whose task is in the middle of a step without an await, or "none"
    environ     \* os.environ["SCIJUDGE_INSECURE_SSL"]

runVars == <<st, ref, node, now, callbacks>>
pubVars == <<pub_in, pub_out, walk>>
storeVars == <<db, cl, uuid>>
jobVars == <<jobs, task, pending, detached, cfg, job_rows, job_events, running, environ>>
otherThanJobs == <<st, ref, node, now, pubVars, storeVars>>
vars == <<runVars, pubVars, storeVars, jobVars>>

\* ------------------------------------------------------------------- texts
Whitespace == {" ", "\n"}

RECURSIVE rstrip(_)
rstrip(s) ==
    IF s = <<>> THEN s
    ELSE IF s[Len(s)] \in Whitespace THEN rstrip(SubSeq(s, 1, Len(s) - 1))
    ELSE s

RECURSIVE lstrip(_)
lstrip(s) ==
    IF s = <<>> THEN s
    ELSE IF s[1] \in Whitespace THEN lstrip(SubSeq(s, 2, Len(s)))
    ELSE s

strip(s) == lstrip(rstrip(s))

IsPrefix(p, s) == Len(p) <= Len(s) /\ SubSeq(s, 1, Len(p)) = p

\* the filter under a mutation: blank entries are kept
SeqKeepBlank(xs) == xs

RECURSIVE SeqFilterNonBlank(_)
SeqFilterNonBlank(xs) ==
    IF xs = <<>> THEN <<>>
    ELSE IF strip(xs[1]) # <<>>
         THEN <<xs[1]>> \o SeqFilterNonBlank(SubSeq(xs, 2, Len(xs)))
         ELSE SeqFilterNonBlank(SubSeq(xs, 2, Len(xs)))

RECURSIVE SeqMapStrip(_)
SeqMapStrip(xs) ==
    IF xs = <<>> THEN <<>>
    ELSE <<strip(xs[1])>> \o SeqMapStrip(SubSeq(xs, 2, Len(xs)))

\* --------------------------------------------------------------- JSON values
JNull == [t |-> "null"]
JList(xs) == [t |-> "list", v |-> xs]
JDict(f) == [t |-> "dict", v |-> f]
JStr(s) == [t |-> "str", v |-> s]
JInt(n) == [t |-> "int", v |-> n]
EmptyDict == <<>>

\* dict.get(key) on a parsed payload (None when the payload or the key is absent)
JGet(raw, key) ==
    IF raw.t = "dict" /\ key \in DOMAIN raw.v THEN raw.v[key] ELSE JNull

\* truthiness of a parsed payload: None and {} are falsy
JTruthy(raw) == raw.t = "dict" /\ DOMAIN raw.v # {}

\* d.setdefault(k, v)
SetDefault(d, k, v) == IF k \in DOMAIN d THEN d ELSE d @@ (k :> v)

\* d.update(e)
DictUpdate(d, e) == [k \in DOMAIN d \cup DOMAIN e |-> IF k \in DOMAIN e THEN e[k] ELSE d[k]]

\* ------------------------------------------------------- phase state machine
INITIALIZATION == "initialization"
CLAIM_ENUMERATION == "claim_enumeration"
METHODOLOGICAL_REVIEW == "methodological_review"
EVIDENCE_REVIEW == "evidence_review"
COI_REVIEW == "coi_review"
PROGRESS_EVALUATION == "progress_evaluation"
DELIBERATION == "deliberation"
VERDICT_ASSIGNMENT == "verdict_assignment"
SYNTHESIS == "synthesis"
COMPLETE == "complete"

\* class DebatePhase, in declaration order
DebatePhase ==
    << INITIALIZATION, CLAIM_ENUMERATION, METHODOLOGICAL_REVIEW, EVIDENCE_REVIEW,
       COI_REVIEW, PROGRESS_EVALUATION, DELIBERATION, VERDICT_ASSIGNMENT,
       SYNTHESIS, COMPLETE >>


MODERATOR == "moderator"
METHODOLOGIST == "methodologist"
EVIDENCE_AUDITOR == "evidence_auditor"
PARADIGM_CHALLENGER == "paradigm_challenger"
SKEPTIC == "skeptic"
INCENTIVES_ANALYST == "incentives_analyst"

\* the transition table under a mutation: COI review is left out of the chain
PHASE_TRANSITIONS_without_coi ==
    (INITIALIZATION :> CLAIM_ENUMERATION)
    @@ (CLAIM_ENUMERATION :> METHODOLOGICAL_REVIEW)
    @@ (METHODOLOGICAL_REVIEW :> EVIDENCE_REVIEW)
    @@ (EVIDENCE_REVIEW :> PROGRESS_EVALUATION)
    @@ (PROGRESS_EVALUATION :> DELIBERATION)
    @@ (DELIBERATION :> VERDICT_ASSIGNMENT)
    @@ (VERDICT_ASSIGNMENT :> SYNTHESIS)
    @@ (SYNTHESIS :> COMPLETE)

PHASE_TRANSITIONS ==
    (INITIALIZATION :> CLAIM_ENUMERATION)
    @@ (CLAIM_ENUMERATION :> METHODOLOGICAL_REVIEW)
    @@ (METHODOLOGICAL_REVIEW :> EVIDENCE_REVIEW)
    @@ (EVIDENCE_REVIEW :> COI_REVIEW)
    @@ (COI_REVIEW :> PROGRESS_EVALUATION)
    @@ (PROGRESS_EVALUATION :> DELIBERATION)
    @@ (DELIBERATION :> VERDICT_ASSIGNMENT)
    @@ (VERDICT_ASSIGNMENT :> SYNTHESIS)
    @@ (SYNTHESIS :> COMPLETE)

\* advance_phase under a mutation: an input without a mapping is returned as it is
advance_phase_identity_default(current_phase) ==
    IF current_phase \in DOMAIN PHASE_TRANSITIONS
    THEN PHASE_TRANSITIONS[current_phase]
    ELSE current_phase

\* PHASE_TRANSITIONS.get(current_phase, DebatePhase.COMPLETE)
advance_phase(current_phase) ==
    IF current_phase \in DOMAIN PHASE_TRANSITIONS
    THEN PHASE_TRANSITIONS[current_phase]
    ELSE COMPLETE

PHASE_PARTICIPANTS ==
    (INITIALIZATION :> <<MODERATOR>>)
    @@ (CLAIM_ENUMERATION :> <<MODERATOR, EVIDENCE_AUDITOR, METHODOLOGIST>>)
    @@ (METHODOLOGICAL_REVIEW :> <<MODERATOR, METHODOLOGIST, SKEPTIC>>)
    @@ (EVIDENCE_REVIEW :> <<MODERATOR, EVIDENCE_AUDITOR, SKEPTIC, PARADIGM_CHALLENGER>>)
    @@ (COI_REVIEW :> <<MODERATOR, INCENTIVES_ANALYST>>)
    @@ (PROGRESS_EVALUATION :> <<MODERATOR, PARADIGM_CHALLENGER, EVIDENCE_AUDITOR>>)
    @@ (DELIBERATION :> <<MODERATOR, METHODOLOGIST, EVIDENCE_AUDITOR,
                          PARADIGM_CHALLENGER, SKEPTIC, INCENTIVES_ANALYST>>)
    @@ (VERDICT_ASSIGNMENT :> <<MODERATOR>>)
    @@ (SYNTHESIS :> <<MODERATOR>>)

\* the participants of a phase with the moderator left out
get_active_agents_without_moderator(phase) ==
    IF phase \in DOMAIN PHASE_PARTICIPANTS
    THEN SelectSeq(PHASE_PARTICIPANTS[phase], LAMBDA r : r # MODERATOR)
    ELSE <<>>

get_active_agents(phase) ==
    IF phase \in DOMAIN PHASE_PARTICIPANTS THEN PHASE_PARTICIPANTS[phase] ELSE <<>>

\* arguments handed to advance_phase: the members of DebatePhase and two values
\* that are no member (a string that names no phase, None)
PhaseInputs == { DebatePhase[k] : k \in 1..Len(DebatePhase) } \cup { "unknown", "None" }

NoWalk == [ start |-> "None", trail |-> <<>> ]

WalkInit == walk \in [ start : PhaseInputs, trail : { <<>> } ]

WalkIdle == walk = NoWalk

\* phase = advance_phase(phase), starting from the first input
AdvancePhase ==
    LET current_phase == IF walk.trail = <<>> THEN walk.start ELSE walk.trail[Len(walk.trail)]
    IN  /\ Len(walk.trail) < MaxSteps
        /\ walk' = [walk EXCEPT !.trail = Append(@, advance_phase(current_phase))]
        /\ UNCHANGED <<pub_in, pub_out, runVars, storeVars, jobVars>>

WalkNext == AdvancePhase

\* ------------------------------------------------------------- run state

T(x) == <<x>>
NoTid == "None"
NoVerdict == [t |-> "null"]
NoExc == "none"
NoModel == "none"

\* PaperContext values produced by ingestion (heuristic claims and limitations may be empty)
Papers ==
    { [arxiv_id |-> "2401.00001", title |-> T("title"), authors |-> <<T("Alice")>>,
       abstract |-> T("abstract"), claims |-> <<>>, limitations |-> <<T("pdf text missing")>>],
      [arxiv_id |-> "2401.00001", title |-> T("title"), authors |-> <<T("Alice")>>,
       abstract |-> T("abstract"), claims |-> <<T("heuristic claim")>>, limitations |-> <<>>] }

\* run_debate_async: the initial state handed to the graph. passes_tid says whether
\* the graph hands the "_thread_id" key (not a key of DebateState) on to the nodes.
InitialState(paper, thread_id, passes_tid) ==
    LET tid == IF thread_id # NoTid THEN thread_id ELSE paper.arxiv_id
    IN  [ paper |-> paper,
          thread_id |-> IF passes_tid THEN tid ELSE NoTid,
          phase |-> INITIALIZATION,
          messages |-> <<>>,
          model_divergence |-> <<>>,
          enumerated_claims |-> <<>>,
          methodological_findings |-> EmptyDict,
          evidence_findings |-> EmptyDict,
          coi_findings |-> EmptyDict,
          verdict |-> NoVerdict,
          synthesis |-> <<>>,
          phase_transitions |-> <<>>,
          principle_violations |-> <<>>,
          extraction_limitations |-> <<>>,
          \* history, not fields of the program: the values phase has taken, the
          \* callback invocations made, the runner invocations made, the parsed payload
          \* of the last run_json call, the exception in flight, the readings of
          \* datetime.now() made so far (the k-th reading returns the start time plus k)
          phase_log |-> <<INITIALIZATION>>,
          ticks |-> 0,
          last_raw |-> JNull,
          cb_calls |-> <<>>,
          cb_raised |-> FALSE,
          calls |-> 0,
          exc |-> NoExc ]

\* can_advance(state): the advisory predicate of the phase the state is in
\* (None is the record without fields, "" and [] and {} are empty)
can_advance(s) ==
    CASE s.phase = INITIALIZATION -> DOMAIN s.paper # {}
      [] s.phase = CLAIM_ENUMERATION -> Len(s.enumerated_claims) > 0
      [] s.phase = METHODOLOGICAL_REVIEW -> DOMAIN s.methodological_findings # {}
      [] s.phase = EVIDENCE_REVIEW -> DOMAIN s.evidence_findings # {}
      [] s.phase = COI_REVIEW -> DOMAIN s.coi_findings # {}
      [] s.phase = VERDICT_ASSIGNMENT -> s.verdict # NoVerdict
      [] s.phase = SYNTHESIS -> Len(s.synthesis) > 0
      [] OTHER -> TRUE

\* state["phase"] = p; state["phase_transitions"].append((p, datetime.now()))
EnterPhase(s, p, t) ==
    [s EXCEPT !.phase = p,
              !.phase_log = IF s.phase = p THEN @ ELSE Append(@, p),
              !.ticks = @ + 1,
              !.phase_transitions = Append(@, <<p, t + s.ticks + 1>>)]

AgentMessage(agent, phase, content, model, inv, t) ==
    [agent |-> agent, phase |-> phase, timestamp |-> t, content |-> content,
     model |-> model, inv |-> inv]

\* the mutation: the callback's exception is not caught
append_agent_message_unguarded(s, cbs, agent_role, phase, content, model, inv, cbo, t) ==
    LET msg == AgentMessage(agent_role, phase, content, model, inv, t + s.ticks + 1)
        s1 == [s EXCEPT !.messages = Append(@, msg), !.ticks = @ + 1]
        tid == IF s.thread_id # NoTid THEN s.thread_id ELSE s.paper.arxiv_id
    IN  IF tid \in DOMAIN cbs
        THEN [s1 EXCEPT !.cb_calls = Append(@, [cb |-> cbs[tid], msg |-> msg,
                                                count |-> Len(s1.messages)]),
                        !.cb_raised = @ \/ cbo = "raised",
                        !.exc = IF cbo = "raised" THEN "callback" ELSE @]
        ELSE s1

\* the mutation: the new message is put at the head of the log
append_agent_message_prepend(s, cbs, agent_role, phase, content, model, inv, cbo, t) ==
    LET msg == AgentMessage(agent_role, phase, content, model, inv, t + s.ticks + 1)
        s1 == [s EXCEPT !.messages = <<msg>> \o @, !.ticks = @ + 1]
        tid == IF s.thread_id # NoTid THEN s.thread_id ELSE s.paper.arxiv_id
    IN  IF tid \in DOMAIN cbs
        THEN [s1 EXCEPT !.cb_calls = Append(@, [cb |-> cbs[tid], msg |-> msg,
                                                count |-> Len(s1.messages)]),
                        !.cb_raised = @ \/ cbo = "raised"]
        ELSE s1

\* _append_agent_message: append to the log, then best-effort callback
append_agent_message(s, cbs, agent_role, phase, content, model, inv, cbo, t) ==
    LET msg == AgentMessage(agent_role, phase, content, model, inv, t + s.ticks + 1)
        s1 == [s EXCEPT !.messages = Append(@, msg), !.ticks = @ + 1]
        tid == IF s.thread_id # NoTid THEN s.thread_id ELSE s.paper.arxiv_id
    IN  IF tid \in DOMAIN cbs
        THEN \* cb(msg, state); except Exception: pass
             [s1 EXCEPT !.cb_calls = Append(@, [cb |-> cbs[tid], msg |-> msg,
                                                count |-> Len(s1.messages)]),
                        !.cb_raised = @ \/ cbo = "raised"]
        ELSE s1

\* _run_agent_json: one runner.run_json call, its content logged under the agent
run_agent_json(s, cbs, agent_key, phase, result, cbo, t) ==
    LET s1 == [s EXCEPT !.calls = @ + 1, !.last_raw = result.raw]
    IN  append_agent_message(s1, cbs, agent_key, phase, result.content, "llm",
                             s1.calls, cbo, t)

\* list(...) of str(x) for the optional "extraction_limitations" list of a payload
LimitationsOf(raw) ==
    LET lim == JGet(raw, "extraction_limitations")
    IN  IF lim.t = "list" THEN lim.v ELSE <<>>
\* ------------------------------------------------------------ graph nodes
\* Each node takes the state, the callback registry, its inputs (the runner
\* results res, the callback outcomes cbo, one per logged message) and the
\* clock, and returns the state it leaves; exc # NoExc means it raised.

initialize_debate(s, cbs, in, t) ==
    LET moderator_message ==
            AgentMessage(MODERATOR, INITIALIZATION, T("Scientific Review Panel convened."),
                         NoModel, 0, t + s.ticks + 3)
    IN  [s EXCEPT !.phase = INITIALIZATION,
                  !.phase_log = IF s.phase = INITIALIZATION THEN @
                                ELSE Append(@, INITIALIZATION),
                  \* start_time, the first phase transition and the message each read the clock
                  !.ticks = @ + 3,
                  !.phase_transitions = << <<INITIALIZATION, t + s.ticks + 2>> >>,
                  !.extraction_limitations = @ \o s.paper.limitations,
                  !.messages = <<moderator_message>>]

enumerate_claims(s, cbs, in, t) ==
    LET s1 == EnterPhase(s, CLAIM_ENUMERATION, t)
        s2 == append_agent_message(s1, cbs, MODERATOR, CLAIM_ENUMERATION,
                  T("Phase 1: Enumerate explicit claims (no judgment)."),
                  NoModel, 0, in.cbo[1], t)
        s3 == run_agent_json(s2, cbs, EVIDENCE_AUDITOR, CLAIM_ENUMERATION,
                             in.res, in.cbo[2], t)
        claims_raw == in.res.raw
        parsed == JTruthy(claims_raw) /\ JGet(claims_raw, "claims").t = "list"
        claims == IF parsed
                  THEN SeqMapStrip(SeqFilterNonBlank(JGet(claims_raw, "claims").v))
                  ELSE <<>>
        s4 == IF parsed
              THEN [s3 EXCEPT !.extraction_limitations = @ \o LimitationsOf(claims_raw)]
              ELSE s3
        s5 == IF claims = <<>>
              THEN [s4 EXCEPT
                      !.enumerated_claims =
                          IF s.paper.claims # <<>> THEN s.paper.claims
                          ELSE <<s.paper.abstract>>,
                      !.extraction_limitations = Append(@,
                          T("Claim extraction JSON parse failed; fell back to heuristic claims from abstract."))]
              ELSE [s4 EXCEPT !.enumerated_claims = claims]
    IN  IF s2.exc # NoExc THEN s2 ELSE IF s3.exc # NoExc THEN s3 ELSE s5

\* the node under a mutation: no placeholder note when the payload gives no finding
review_methodology_without_fallback(s, cbs, in, t) ==
    LET s1 == EnterPhase(s, METHODOLOGICAL_REVIEW, t)
        s2 == append_agent_message(s1, cbs, MODERATOR, METHODOLOGICAL_REVIEW,
                  T("Phase 2: Evaluate methodology only (methods != truth)."),
                  NoModel, 0, in.cbo[1], t)
        s3 == run_agent_json(s2, cbs, METHODOLOGIST, METHODOLOGICAL_REVIEW,
                             in.res, in.cbo[2], t)
        meth_raw == in.res.raw
        parsed == JTruthy(meth_raw) /\ JGet(meth_raw, "findings").t = "dict"
        findings == IF parsed THEN DictUpdate(EmptyDict, JGet(meth_raw, "findings").v)
                    ELSE EmptyDict
        s4 == IF parsed
              THEN [s3 EXCEPT !.extraction_limitations = @ \o LimitationsOf(meth_raw)]
              ELSE s3
        s5 == [s4 EXCEPT !.methodological_findings = findings]
    IN  IF s2.exc # NoExc THEN s2 ELSE IF s3.exc # NoExc THEN s3 ELSE s5

review_methodology(s, cbs, in, t) ==
    LET s1 == EnterPhase(s, METHODOLOGICAL_REVIEW, t)
        s2 == append_agent_message(s1, cbs, MODERATOR, METHODOLOGICAL_REVIEW,
                  T("Phase 2: Evaluate methodology only (methods != truth)."),
                  NoModel, 0, in.cbo[1], t)
        s3 == run_agent_json(s2, cbs, METHODOLOGIST, METHODOLOGICAL_REVIEW,
                             in.res, in.cbo[2], t)
        meth_raw == in.res.raw
        parsed == JTruthy(meth_raw) /\ JGet(meth_raw, "findings").t = "dict"
        findings == IF parsed THEN DictUpdate(EmptyDict, JGet(meth_raw, "findings").v)
                    ELSE EmptyDict
        s4 == IF parsed
              THEN [s3 EXCEPT !.extraction_limitations = @ \o LimitationsOf(meth_raw)]
              ELSE s3
        s5 == IF DOMAIN findings = {}
              THEN [s4 EXCEPT
                      !.methodological_findings =
                          T("note") :> T("Methodology review unavailable (LLM JSON parse failed)."),
                      !.extraction_limitations = Append(@,
                          T("Methodology JSON parse failed; findings may be incomplete."))]
              ELSE [s4 EXCEPT !.methodological_findings = findings]
    IN  IF s2.exc # NoExc THEN s2 ELSE IF s3.exc # NoExc THEN s3 ELSE s5

review_evidence(s, cbs, in, t) ==
    LET s1 == EnterPhase(s, EVIDENCE_REVIEW, t)
        s2 == append_agent_message(s1, cbs, MODERATOR, EVIDENCE_REVIEW,
                  T("Phase 3: Does evidence support claims? Include alternatives and parity checks."),
                  NoModel, 0, in.cbo[1], t)
        s3 == run_agent_json(s2, cbs, EVIDENCE_AUDITOR, EVIDENCE_REVIEW,
                             in.res, in.cbo[2], t)
        ev_raw == in.res.raw
        f1 == IF JTruthy(ev_raw) /\ JGet(ev_raw, "findings").t = "dict"
              THEN DictUpdate(EmptyDict, JGet(ev_raw, "findings").v)
              ELSE EmptyDict
        f2 == IF JTruthy(ev_raw) /\ JGet(ev_raw, "overall").t = "str"
              THEN SetDefault(f1, T("overall"), JGet(ev_raw, "overall").v)
              ELSE f1
        s4 == IF JTruthy(ev_raw)
              THEN [s3 EXCEPT !.extraction_limitations = @ \o LimitationsOf(ev_raw)]
              ELSE s3
        s5 == IF DOMAIN f2 = {}
              THEN [s4 EXCEPT
                      !.evidence_findings =
                          T("note") :> T("Evidence review unavailable (LLM JSON parse failed)."),
                      !.extraction_limitations = Append(@,
                          T("Evidence JSON parse failed; findings may be incomplete."))]
              ELSE [s4 EXCEPT !.evidence_findings = f2]
    IN  IF s2.exc # NoExc THEN s2 ELSE IF s3.exc # NoExc THEN s3 ELSE s5

\* in.coi is what asyncio.run(analyze_conflicts_of_interest(...)) does:
\* "ok", "RuntimeError" (caught) or "OtherError" (any other exception: not caught)
review_coi(s, cbs, in, t) ==
    LET s1 == EnterPhase(s, COI_REVIEW, t)
        s2 == append_agent_message(s1, cbs, MODERATOR, COI_REVIEW,
                  T("Phase 4: Surface COI/incentives as facts, not dismissal."),
                  NoModel, 0, in.cbo[1], t)
        s3 == CASE in.coi = "ok" ->
                     [s2 EXCEPT !.coi_findings = T("coi_report") :> T("json report")]
                 [] in.coi = "RuntimeError" ->
                     [s2 EXCEPT
                        !.coi_findings = T("coi_report") :>
                            T("COI enrichment not executed (event loop constraint)."),
                        !.extraction_limitations = Append(@,
                            T("COI tool not executed due to event loop constraint."))]
                 [] OTHER -> [s2 EXCEPT !.exc = "coi"]
    IN  IF s2.exc # NoExc THEN s2 ELSE s3

\* the mutation: the finding of the phase replaces a value already held under its key
MergeProgressOverwriting(evidence_findings, found) ==
    LET new == { <<"progress::">> \o k : k \in DOMAIN found }
    IN  [key \in DOMAIN evidence_findings \cup new |->
            IF key \in new THEN found[SubSeq(key, 2, Len(key))]
            ELSE evidence_findings[key]]

\* state["evidence_findings"].setdefault(f"progress::{k}", str(v)) for each finding
MergeProgress(evidence_findings, found) ==
    LET new == { <<"progress::">> \o k : k \in DOMAIN found }
    IN  [key \in DOMAIN evidence_findings \cup new |->
            IF key \in DOMAIN evidence_findings THEN evidence_findings[key]
            ELSE found[SubSeq(key, 2, Len(key))]]

evaluate_progress(s, cbs, in, t) ==
    LET s1 == EnterPhase(s, PROGRESS_EVALUATION, t)
        s2 == append_agent_message(s1, cbs, MODERATOR, PROGRESS_EVALUATION,
                  T("Phase 5: Evaluate progress-of-science value (even if wrong)."),
                  NoModel, 0, in.cbo[1], t)
        s3 == run_agent_json(s2, cbs, PARADIGM_CHALLENGER, PROGRESS_EVALUATION,
                             in.res, in.cbo[2], t)
        prog_raw == in.res.raw
        s4 == IF JTruthy(prog_raw) /\ JGet(prog_raw, "findings").t = "dict"
              THEN [s3 EXCEPT !.evidence_findings =
                                  MergeProgress(@, JGet(prog_raw, "findings").v)]
              ELSE s3
    IN  IF s2.exc # NoExc THEN s2 ELSE IF s3.exc # NoExc THEN s3 ELSE s4

\* for role in get_active_agents(DELIBERATION): _run_agent_json(agent_key=role.value, ...)
RECURSIVE DeliberateFrom(_, _, _, _, _, _)
DeliberateFrom(s, cbs, roles, i, in, t) ==
    IF i > Len(roles) \/ s.exc # NoExc THEN s
    ELSE DeliberateFrom(
             run_agent_json(s, cbs, roles[i], DELIBERATION, in.res, in.cbo[i], t),
             cbs, roles, i + 1, in, t)

deliberate(s, cbs, in, t) ==
    DeliberateFrom(EnterPhase(s, DELIBERATION, t), cbs,
                   get_active_agents(DELIBERATION), 1, in, t)

VerdictAxes ==
    << "methodological_soundness", "evidence_strength", "novelty_value",
       "scientific_contribution", "risk_of_overreach" >>

\* the validation under a mutation: the range of the scores is not checked
VerdictValidAnyScore(raw) ==
    /\ raw.t = "dict"
    /\ \A i \in 1..Len(VerdictAxes) : JGet(raw, VerdictAxes[i]).t = "int"
    /\ JGet(raw, "rationale").t = "str"

\* VerdictDimension.model_validate(raw): five integer axes in 1..5 and a rationale
VerdictValid(raw) ==
    /\ raw.t = "dict"
    /\ \A i \in 1..Len(VerdictAxes) :
          /\ JGet(raw, VerdictAxes[i]).t = "int"
          /\ JGet(raw, VerdictAxes[i]).v >= 1
          /\ JGet(raw, VerdictAxes[i]).v <= 5
    /\ JGet(raw, "rationale").t = "str"

VerdictDimension(ms, es, nv, sc, ro, rationale) ==
    [ t |-> "verdict", methodological_soundness |-> ms, evidence_strength |-> es,
      novelty_value |-> nv, scientific_contribution |-> sc, risk_of_overreach |-> ro,
      rationale |-> rationale ]

assign_verdict(s, cbs, in, t) ==
    LET s1 == EnterPhase(s, VERDICT_ASSIGNMENT, t)
        moderator_msg == AgentMessage(MODERATOR, VERDICT_ASSIGNMENT,
                                      T("Verdict Assignment"), NoModel, 0, t + s1.ticks + 1)
        s2 == [s1 EXCEPT !.messages = Append(@, moderator_msg), !.ticks = @ + 1]
        s3 == run_agent_json(s2, cbs, MODERATOR, VERDICT_ASSIGNMENT, in.res, in.cbo[1], t)
        verdict_raw == in.res.raw
        s4 == IF VerdictValid(verdict_raw)
              THEN [s3 EXCEPT !.verdict =
                      VerdictDimension(verdict_raw.v.methodological_soundness.v,
                                       verdict_raw.v.evidence_strength.v,
                                       verdict_raw.v.novelty_value.v,
                                       verdict_raw.v.scientific_contribution.v,
                                       verdict_raw.v.risk_of_overreach.v,
                                       verdict_raw.v.rationale.v)]
              ELSE [s3 EXCEPT
                      !.verdict = VerdictDimension(3, 3, 3, 3, 3,
                          T("Verdict JSON parse failed; placeholder scores used.")),
                      !.extraction_limitations = Append(@,
                          T("Verdict JSON parse failed; placeholder verdict used."))]
    IN  IF s3.exc # NoExc THEN s3 ELSE s4

\* in.res is the run_text result, in.div the run_json result of divergence extraction
synthesize(s, cbs, in, t) ==
    LET s1 == [EnterPhase(s, SYNTHESIS, t) EXCEPT !.calls = @ + 2]
        div == in.div.raw
        s2 == IF JTruthy(div) /\ JGet(div, "divergence").t = "list"
              THEN [s1 EXCEPT !.model_divergence = JGet(div, "divergence").v]
              ELSE s1
        s3 == append_agent_message(s2, cbs, MODERATOR, SYNTHESIS, in.res.content,
                                   "llm", s.calls + 1, in.cbo[1], t)
        s4 == [s3 EXCEPT !.synthesis = in.res.content,
                         !.phase = COMPLETE,
                         !.phase_log = IF s3.phase = COMPLETE THEN @ ELSE Append(@, COMPLETE)]
    IN  IF s3.exc # NoExc THEN s3 ELSE s4
\* ------------------------------------------------------------ debate graph
\* create_debate_graph: entry point and edges
EntryPoint == "initialize"

\* the mutation: the edge out of review_evidence skips review_coi
GraphEdgesSkipCoi ==
    ("initialize" :> "enumerate_claims")
    @@ ("enumerate_claims" :> "review_methodology")
    @@ ("review_methodology" :> "review_evidence")
    @@ ("review_evidence" :> "evaluate_progress")
    @@ ("evaluate_progress" :> "deliberate")
    @@ ("deliberate" :> "assign_verdict")
    @@ ("assign_verdict" :> "synthesize")
    @@ ("synthesize" :> "END")

GraphEdges ==
    ("initialize" :> "enumerate_claims")
    @@ ("enumerate_claims" :> "review_methodology")
    @@ ("review_methodology" :> "review_evidence")
    @@ ("review_evidence" :> "review_coi")
    @@ ("review_coi" :> "evaluate_progress")
    @@ ("evaluate_progress" :> "deliberate")
    @@ ("deliberate" :> "assign_verdict")
    @@ ("assign_verdict" :> "synthesize")
    @@ ("synthesize" :> "END")

\* workflow.add_node(name, function)
NodeOp(n, s, cbs, in, t) ==
    CASE n = "initialize" -> initialize_debate(s, cbs, in, t)
      [] n = "enumerate_claims" -> enumerate_claims(s, cbs, in, t)
      [] n = "review_methodology" -> review_methodology(s, cbs, in, t)
      [] n = "review_evidence" -> review_evidence(s, cbs, in, t)
      [] n = "review_coi" -> review_coi(s, cbs, in, t)
      [] n = "evaluate_progress" -> evaluate_progress(s, cbs, in, t)
      [] n = "deliberate" -> deliberate(s, cbs, in, t)
      [] n = "assign_verdict" -> assign_verdict(s, cbs, in, t)
      [] n = "synthesize" -> synthesize(s, cbs, in, t)

\* What AgentRunner.run_json / run_text may return, per phase: a content text and,
\* in JSON mode, the parsed object or None.
ClaimResults ==
    { [content |-> T("not json"), raw |-> JNull],
      [content |-> T("no claims key"), raw |-> JDict([other |-> JStr(T("x"))])],
      [content |-> T("blank claims"), raw |-> JDict([claims |-> JList(<< <<" ">> >>)])],
      [content |-> T("claims"),
       raw |-> JDict([claims |-> JList(<< <<" ", "c1", "\n">>, <<" ">> >>),
                      extraction_limitations |-> JList(<< T("runner: abstract only") >>)])] }

MethodologyResults ==
    { [content |-> T("not json"), raw |-> JNull],
      [content |-> T("empty findings"), raw |-> JDict([findings |-> JDict(EmptyDict)])],
      [content |-> T("findings"),
       raw |-> JDict([findings |-> JDict(T("design") :> T("no control group")),
                      extraction_limitations |-> JList(<< <<" ">> >>)])] }

EvidenceResults ==
    { [content |-> T("not json"), raw |-> JNull],
      [content |-> T("limitations only"),
       raw |-> JDict([extraction_limitations |-> JList(<< T("runner: no tables") >>)])],
      [content |-> T("overall only"), raw |-> JDict([overall |-> JStr(T("weak"))])],
      [content |-> T("findings"),
       raw |-> JDict([findings |-> JDict((T("overall") :> T("mixed"))
                                         @@ (<<"progress::", "k">> :> T("from evidence"))),
                      overall |-> JStr(T("weak"))])] }

ProgressResults ==
    { [content |-> T("not json"), raw |-> JNull],
      [content |-> T("findings"),
       raw |-> JDict([findings |-> JDict((T("k") :> T("testable")) @@ (T("overall") :> T("useful")))])] }

DeliberationResults ==
    { [content |-> T("summary"), raw |-> JNull] }

VerdictPayload(ms, es, nv, sc, ro) ==
    JDict([methodological_soundness |-> JInt(ms), evidence_strength |-> JInt(es),
           novelty_value |-> JInt(nv), scientific_contribution |-> JInt(sc),
           risk_of_overreach |-> JInt(ro), rationale |-> JStr(T("because"))])

VerdictResults ==
    { [content |-> T("not json"), raw |-> JNull],
      [content |-> T("axis missing"), raw |-> JDict([methodological_soundness |-> JInt(4)])],
      [content |-> T("axis out of range"), raw |-> VerdictPayload(5, 5, 6, 5, 1)],
      [content |-> T("no rationale"),
       raw |-> JDict([k \in DOMAIN VerdictPayload(4, 4, 4, 4, 2).v \ {"rationale"} |->
                          VerdictPayload(4, 4, 4, 4, 2).v[k]])],
      [content |-> T("scores"), raw |-> VerdictPayload(5, 5, 5, 5, 1)],
      [content |-> T("scores"), raw |-> VerdictPayload(4, 2, 1, 3, 4)] }

\* the two moderator calls of synthesize: run_text, then run_json
SynthesisCalls ==
    { [res |-> [content |-> T("chair synthesis")], div |-> [content |-> T("not json"), raw |-> JNull]],
      [res |-> [content |-> T("chair synthesis")],
       div |-> [content |-> T("divergence"), raw |-> JDict([divergence |-> JList(<< T("d1") >>)])]],
      [res |-> [content |-> <<>>], div |-> [content |-> T("{}"), raw |-> JDict(EmptyDict)]] }

CoiOutcomes == {"ok", "RuntimeError", "OtherError"}

\* outcomes of the callback invocations of one node
Outcomes(n) == [1..n -> {"returned", "raised"}]
AllReturned(cbo) == [i \in DOMAIN cbo |-> "returned"]


\* One graph step: the node runs on the state, and on the reference state with the
\* same inputs and a callback that never raises.
RunNode(n, in) ==
    /\ node = n
    /\ st' = NodeOp(n, st, callbacks, in, now)
    /\ ref' = NodeOp(n, ref, callbacks, [in EXCEPT !.cbo = AllReturned(in.cbo)], now)
    /\ node' = IF st'.exc # NoExc THEN "FAILED" ELSE GraphEdges[n]
    /\ UNCHANGED <<now, callbacks, pubVars, storeVars, jobVars>>

Initialize == RunNode("initialize", [cbo |-> <<>>])

EnumerateClaims ==
    \E res \in ClaimResults, cbo \in Outcomes(2) :
        RunNode("enumerate_claims", [res |-> res, cbo |-> cbo])

ReviewMethodology ==
    \E res \in MethodologyResults, cbo \in Outcomes(2) :
        RunNode("review_methodology", [res |-> res, cbo |-> cbo])

ReviewEvidence ==
    \E res \in EvidenceResults, cbo \in Outcomes(2) :
        RunNode("review_evidence", [res |-> res, cbo |-> cbo])

ReviewCoi ==
    \E coi \in CoiOutcomes, cbo \in Outcomes(1) :
        RunNode("review_coi", [coi |-> coi, cbo |-> cbo])

EvaluateProgress ==
    \E res \in ProgressResults, cbo \in Outcomes(2) :
        RunNode("evaluate_progress", [res |-> res, cbo |-> cbo])

Deliberate ==
    \E res \in DeliberationResults,
       cbo \in Outcomes(Len(get_active_agents(DELIBERATION))) :
        RunNode("deliberate", [res |-> res, cbo |-> cbo])

AssignVerdict ==
    \E res \in VerdictResults, cbo \in Outcomes(1) :
        RunNode("assign_verdict", [res |-> res, cbo |-> cbo])

Synthesize ==
    \E c \in SynthesisCalls, cbo \in Outcomes(1) :
        RunNode("synthesize", [res |-> c.res, div |-> c.div, cbo |-> cbo])

\* How a run is started: the thread_id argument, whether the graph hands
\* "_thread_id" on to the nodes, and the thread ids with a registered callback.
RunConfigs ==
    { [thread_id |-> "job:1", passes_tid |-> TRUE, registered |-> {"job:1"}],
      [thread_id |-> "job:1", passes_tid |-> FALSE, registered |-> {"job:1"}],
      [thread_id |-> NoTid, passes_tid |-> FALSE, registered |-> {"2401.00001"}] }

RunInit ==
    \E paper \in Papers, c \in RunConfigs :
        /\ st = InitialState(paper, c.thread_id, c.passes_tid)
        /\ ref = st
        /\ node = EntryPoint
        /\ now = 0
        /\ callbacks = [tid \in c.registered |-> "cb"]

RunNext ==
    \/ Initialize
    \/ EnumerateClaims
    \/ ReviewMethodology
    \/ ReviewEvidence
    \/ ReviewCoi
    \/ EvaluateProgress
    \/ Deliberate
    \/ AssignVerdict
    \/ Synthesize

\* ------------------------------------------------------ publishability gate

NoResult == [t |-> "none"]

\* str(n) of an f-string, for the scores a verdict can hold
str(n) == << "0", "1", "2", "3", "4", "5", "6" >>[n + 1]

\* VerdictDimension.model_validate(dict(verdict))
model_validate(raw) ==
    IF VerdictValid(raw)
    THEN VerdictDimension(raw.v.methodological_soundness.v, raw.v.evidence_strength.v,
                          raw.v.novelty_value.v, raw.v.scientific_contribution.v,
                          raw.v.risk_of_overreach.v, raw.v.rationale.v)
    ELSE [t |-> "ValidationError"]

\* _as_verdict under a mutation: the soundness axis is read from novelty_value
as_verdict_soundness_from_novelty(verdict) ==
    LET v == IF verdict.t = "verdict" THEN verdict ELSE model_validate(verdict)
    IN  IF v.t = "verdict" THEN [v EXCEPT !.methodological_soundness = v.novelty_value]
        ELSE v

as_verdict(verdict) ==
    IF verdict.t = "verdict" THEN verdict ELSE model_validate(verdict)

PublishabilityResult(decision, publishable, provisional, gates, reasons) ==
    [ t |-> "result", decision |-> decision, publishable |-> publishable,
      provisional |-> provisional, gates |-> gates, reasons |-> reasons ]

\* (x or []) of an optional iterable
OrEmpty(xs) == IF xs.t = "list" THEN xs.v ELSE <<>>

\* the decision branch under a mutation: the revise branch no longer asks overreach_ok
DecisionIgnoringOverreach(method_ok, evidence_ok, overreach_ok) ==
    IF method_ok /\ evidence_ok /\ overreach_ok THEN "publishable"
    ELSE IF method_ok /\ ~evidence_ok THEN "revise_resubmit"
    ELSE "reject"

Decision(method_ok, evidence_ok, overreach_ok) ==
    IF method_ok /\ evidence_ok /\ overreach_ok THEN "publishable"
    ELSE IF method_ok /\ overreach_ok /\ ~evidence_ok THEN "revise_resubmit"
    ELSE "reject"

\* the gate reasons under a mutation: evidence is reported before soundness
GateReasonsEvidenceFirst(v, method_ok, evidence_ok, overreach_ok) ==
    (IF ~evidence_ok
        THEN << <<"Evidence strength too low (", str(v.evidence_strength), "/5)">> >>
        ELSE <<>>)
    \o (IF ~method_ok
        THEN << <<"Methodological soundness too low (", str(v.methodological_soundness), "/5)">> >>
        ELSE <<>>)
    \o (IF ~overreach_ok
        THEN << <<"Risk of overreach too high (", str(v.risk_of_overreach), "/5)">> >>
        ELSE <<>>)

GateReasons(v, method_ok, evidence_ok, overreach_ok) ==
    (IF ~method_ok
        THEN << <<"Methodological soundness too low (", str(v.methodological_soundness), "/5)">> >>
        ELSE <<>>)
    \o (IF ~evidence_ok
        THEN << <<"Evidence strength too low (", str(v.evidence_strength), "/5)">> >>
        ELSE <<>>)
    \o (IF ~overreach_ok
        THEN << <<"Risk of overreach too high (", str(v.risk_of_overreach), "/5)">> >>
        ELSE <<>>)

\* provisional under a mutation: the limitations list is not looked at
ProvisionalViolationsOnly(extraction_limitations_list, principle_violations_list) ==
    principle_violations_list # <<>>

\* provisional under a mutation: the violations list is not looked at
ProvisionalLimitationsOnly(extraction_limitations_list, principle_violations_list) ==
    extraction_limitations_list # <<>>

Provisional(extraction_limitations_list, principle_violations_list) ==
    extraction_limitations_list # <<>> \/ principle_violations_list # <<>>

evaluate_publishability(verdict, extraction_limitations, principle_violations) ==
    IF verdict.t = "null"
    THEN PublishabilityResult("unverified", FALSE, TRUE,
            [methodological_soundness_ge_3 |-> FALSE, evidence_strength_ge_3 |-> FALSE,
             risk_of_overreach_le_3 |-> FALSE],
            << T("No verdict present") >>)
    ELSE
    LET v == as_verdict(verdict)
        method_ok == v.methodological_soundness >= 3
        evidence_ok == v.evidence_strength >= 3
        overreach_ok == v.risk_of_overreach <= 3
        gates == [methodological_soundness_ge_3 |-> method_ok,
                  evidence_strength_ge_3 |-> evidence_ok,
                  risk_of_overreach_le_3 |-> overreach_ok]
        reasons == GateReasons(v, method_ok, evidence_ok, overreach_ok)
        decision == Decision(method_ok, evidence_ok, overreach_ok)
        publishable == decision = "publishable"
        extraction_limitations_list == SeqFilterNonBlank(OrEmpty(extraction_limitations))
        principle_violations_list == SeqFilterNonBlank(OrEmpty(principle_violations))
        provisional == Provisional(extraction_limitations_list, principle_violations_list)
        notes ==
            (IF provisional /\ extraction_limitations_list # <<>>
                THEN << T("Provisional: extraction/tooling limitations present") >>
                ELSE <<>>)
            \o (IF provisional /\ principle_violations_list # <<>>
                THEN << T("Provisional: principle violations were flagged") >>
                ELSE <<>>)
    IN  IF v.t = "ValidationError" THEN v
        ELSE PublishabilityResult(decision, publishable, provisional, gates, reasons \o notes)

SeqsUpTo(S, n) == UNION { [1..k -> S] : k \in 0..n }

\* list entries: empty, blank, and with text
PubTexts == { <<>>, <<" ">>, <<"x">> }
PubLists == { JNull } \cup { JList(xs) : xs \in SeqsUpTo(PubTexts, MaxList) }

\* verdict arguments: None, a VerdictDimension, or a mapping still to be validated
PubVerdicts ==
    { NoVerdict }
    \cup { VerdictDimension(ms, es, nv, sc, ro, T("because")) :
              ms \in 1..5, es \in 1..5, ro \in 1..5, nv \in {1, 5}, sc \in {1, 5} }
    \cup { VerdictPayload(5, 5, 5, 5, 4), VerdictPayload(2, 4, 3, 3, 1),
           VerdictPayload(5, 5, 6, 5, 1) }

PubInit ==
    /\ pub_in \in [ verdict : PubVerdicts, extraction_limitations : PubLists,
                     principle_violations : PubLists ]
    /\ pub_out = NoResult
    /\ WalkIdle

PubIdle ==
    /\ pub_in = [ verdict |-> NoVerdict, extraction_limitations |-> JNull,
                  principle_violations |-> JNull ]
    /\ pub_out = NoResult
    /\ WalkIdle

EvaluatePublishability ==
    /\ pub_out = NoResult
    /\ pub_out' = evaluate_publishability(pub_in.verdict, pub_in.extraction_limitations,
                                          pub_in.principle_violations)
    /\ UNCHANGED <<pub_in, walk, runVars, storeVars, jobVars>>

PubNext == EvaluatePublishability

RunIdle ==
    /\ st = InitialState(CHOOSE p \in Papers : p.claims = <<>>, NoTid, FALSE)
    /\ ref = st
    /\ node = EntryPoint
    /\ now = 0
    /\ callbacks = <<>>

\* ------------------------------------------------------------- review store
\* processes holding a ReviewsRepository on the same database
Clients == {"c1", "c2"}

NoRow == [t |-> "none"]
NoId == 0

EmptyDb ==
    [ papers |-> <<>>, reviews |-> <<>>, agent_messages |-> <<>>,
      verdict_versions |-> <<>>, human_feedback |-> <<>> ]

\* table.select(...).eq(col, val).execute().data
SelectEq(rows, col, val) == SelectSeq(rows, LAMBDA r : r[col] = val)

\* the verdict_versions table is keyed on (review id, version): no second row for a key
VerdictVersionKeyFree(d, review_id, version) ==
    \A i \in 1..Len(d.verdict_versions) :
        ~(d.verdict_versions[i].review_id = review_id /\ d.verdict_versions[i].version = version)

\* verdict.model_dump(mode="json") if verdict else {}
verdict_dict(verdict) ==
    IF verdict.t = "verdict"
    THEN JDict([ methodological_soundness |-> verdict.methodological_soundness,
                 evidence_strength |-> verdict.evidence_strength,
                 novelty_value |-> verdict.novelty_value,
                 scientific_contribution |-> verdict.scientific_contribution,
                 risk_of_overreach |-> verdict.risk_of_overreach,
                 rationale |-> verdict.rationale ])
    ELSE JDict(EmptyDict)

\* ensure_paper: the select
ensure_paper_existing(d, paper) == SelectEq(d.papers, "arxiv_id", paper.arxiv_id)

\* ensure_paper: the insert
ensure_paper_insert(d, id, paper) ==
    [d EXCEPT !.papers = Append(@, [ id |-> id, arxiv_id |-> paper.arxiv_id, title |-> paper.title,
                                     authors |-> paper.authors, abstract |-> paper.abstract ])]

create_review(d, id, paper_id) ==
    [d EXCEPT !.reviews = Append(@, [ id |-> id, paper_id |-> paper_id ])]

\* one row per message, in the order of the batch
append_agent_messages(d, review_id, messages) ==
    [d EXCEPT !.agent_messages =
        @ \o [ i \in 1..Len(messages) |->
                 [ review_id |-> review_id, seq |-> i, agent |-> messages[i].agent,
                   phase |-> messages[i].phase, timestamp |-> messages[i].timestamp,
                   content |-> messages[i].content ] ]]

create_verdict_version(d, id, review_id, version, verdict, synthesis) ==
    [d EXCEPT !.verdict_versions =
        Append(@, [ t |-> "row", id |-> id, review_id |-> review_id, version |-> version,
                    verdict |-> verdict, synthesis |-> synthesis ])]

\* select * where review_id = .. order by version desc limit 1
get_latest_verdict_version(d, review_id) ==
    LET rows == SelectEq(d.verdict_versions, "review_id", review_id)
    IN  IF rows = <<>> THEN NoRow
        ELSE rows[CHOOSE i \in 1..Len(rows) : \A j \in 1..Len(rows) : rows[j].version <= rows[i].version]

\* next_version under a mutation: one number is skipped
next_version_skipping(latest) == IF latest # NoRow THEN latest.version + 2 ELSE 1

\* append_verdict_version: int(latest["version"]) + 1 if latest else 1
next_version(latest) == IF latest # NoRow THEN latest.version + 1 ELSE 1

NoteDelimiter == << "\n", "\n", "---", "\n", "Forward-only change note:", "\n" >>

\* new_synthesis under a mutation: the note replaces the previous synthesis
new_synthesis_note_only(latest, forward_change_note) ==
    NoteDelimiter \o forward_change_note

\* apply_forward_change_note_as_new_version: the synthesis of the new version
new_synthesis(latest, forward_change_note) ==
    rstrip(latest.synthesis) \o NoteDelimiter \o forward_change_note

\* a client with no operation in progress
IdleClient ==
    [ pc |-> "idle", arg |-> NoRow, paper_id |-> NoId, review_id |-> NoId,
      latest |-> NoRow, read |-> NoRow, version |-> 0, ops |-> 0, result |-> NoRow ]

\* the client's operation has ended: locals are dropped, its outcome is kept
Ended(client, outcome, review_id) ==
    [ IdleClient EXCEPT !.ops = client.ops,
        !.result = [ t |-> outcome, op |-> client.arg.op, review_id |-> review_id,
                     read |-> client.read, latest |-> client.latest, version |-> client.version,
                     note |-> IF client.arg.op = "apply_forward_change_note"
                              THEN client.arg.note ELSE <<>> ] ]

\* synthesis texts of stored runs: text followed by trailing whitespace
StoreTexts == { <<"a", " ">> }

\* final states of completed runs handed to store_review_state
StoredStates ==
    { [ paper |-> CHOOSE p \in Papers : p.claims = <<>>,
        messages |-> << AgentMessage(MODERATOR, INITIALIZATION, T("framing"), NoModel, 0, 0),
                        AgentMessage(MODERATOR, SYNTHESIS, s, "llm", 1, 0) >>,
        verdict |-> VerdictDimension(4, 2, 3, 3, 1, T("because")),
        synthesis |-> s ] : s \in StoreTexts }
    \cup { [ paper |-> [ (CHOOSE p \in Papers : p.claims = <<>>) EXCEPT
                            !.title = T("title as revised") ],
             messages |-> <<>>, verdict |-> NoVerdict, synthesis |-> <<>> ] }

ReviewIds == { db.reviews[i].id : i \in 1..Len(db.reviews) }

OpsIssued == cl["c1"].ops + cl["c2"].ops
CanStart(c) == cl[c].pc = "idle" /\ OpsIssued < MaxOps

\* store_review_state, up to the select of ensure_paper
StoreReviewState(c) ==
    \E state \in StoredStates :
        LET existing == ensure_paper_existing(db, state.paper)
            begun == [cl[c] EXCEPT !.arg = [op |-> "store_review_state", state |-> state],
                                   !.ops = @ + 1, !.result = NoRow]
        IN  /\ CanStart(c)
            /\ cl' = [cl EXCEPT ![c] =
                        IF existing # <<>>
                        THEN [begun EXCEPT !.pc = "create_review", !.paper_id = existing[1].id]
                        ELSE [begun EXCEPT !.pc = "ensure_paper_insert"]]
            /\ UNCHANGED <<db, uuid, runVars, pubVars, jobVars>>

\* ensure_paper: the insert. The schema of the papers table is not part of the
\* sources: when a row with this arxiv_id has been inserted since the select, the
\* insert either adds a second row (no key on arxiv_id) or is rejected (key on arxiv_id)
EnsurePaperInsert(c) ==
    \E accepted \in BOOLEAN :
        /\ cl[c].pc = "ensure_paper_insert"
        /\ ~accepted => ensure_paper_existing(db, cl[c].arg.state.paper) # <<>>
        /\ uuid' = uuid + 1
        /\ IF accepted
           THEN /\ db' = ensure_paper_insert(db, uuid', cl[c].arg.state.paper)
                /\ cl' = [cl EXCEPT ![c].pc = "create_review", ![c].paper_id = uuid']
           ELSE /\ db' = db
                /\ cl' = [cl EXCEPT ![c] = Ended(@, "raised", NoId)]
        /\ UNCHANGED <<runVars, pubVars, jobVars>>

CreateReview(c) ==
    /\ cl[c].pc = "create_review"
    /\ uuid' = uuid + 1
    /\ db' = create_review(db, uuid', cl[c].paper_id)
    /\ cl' = [cl EXCEPT ![c].pc = "append_agent_messages", ![c].review_id = uuid']
    /\ UNCHANGED <<runVars, pubVars, jobVars>>

AppendAgentMessages(c) ==
    /\ cl[c].pc = "append_agent_messages"
    /\ db' = append_agent_messages(db, cl[c].review_id, cl[c].arg.state.messages)
    /\ cl' = [cl EXCEPT ![c].pc = "create_verdict_version", ![c].version = 1,
                        ![c].arg = [ op |-> "store_review_state", state |-> @.state,
                                     verdict |-> verdict_dict(@.state.verdict),
                                     synthesis |-> @.state.synthesis ]]
    /\ UNCHANGED <<uuid, runVars, pubVars, jobVars>>

\* append_verdict_version called directly, up to its read of the latest version
AppendVerdictVersion(c) ==
    \E review_id \in ReviewIds, synthesis \in {T("b")} :
        LET latest == get_latest_verdict_version(db, review_id)
        IN  /\ CanStart(c)
            /\ cl' = [cl EXCEPT ![c] =
                        [@ EXCEPT !.pc = "create_verdict_version", !.ops = @ + 1, !.result = NoRow,
                                  !.review_id = review_id, !.latest = latest,
                                  !.version = next_version(latest),
                                  !.arg = [ op |-> "append_verdict_version",
                                            verdict |-> verdict_dict(VerdictDimension(5, 5, 5, 5, 1, T("revised"))),
                                            synthesis |-> synthesis ]]]
            /\ UNCHANGED <<db, uuid, runVars, pubVars, jobVars>>

\* apply_forward_change_note_as_new_version, up to its read of the latest version
ApplyForwardChangeNote(c) ==
    \E review_id \in ReviewIds, forward_change_note \in {T("note")} :
        LET latest == get_latest_verdict_version(db, review_id)
            begun == [cl[c] EXCEPT !.ops = @ + 1, !.result = NoRow, !.review_id = review_id,
                                   !.read = latest,
                                   !.arg = [ op |-> "apply_forward_change_note",
                                             note |-> forward_change_note ]]
        IN  /\ CanStart(c)
            /\ cl' = [cl EXCEPT ![c] =
                        IF latest = NoRow
                        THEN Ended(begun, "raised", review_id)
                        ELSE [begun EXCEPT !.pc = "append_verdict_version",
                                !.arg = [ op |-> "apply_forward_change_note",
                                          note |-> forward_change_note,
                                          verdict |-> latest.verdict,
                                          synthesis |-> new_synthesis(latest, forward_change_note) ]]]
            /\ UNCHANGED <<db, uuid, runVars, pubVars, jobVars>>

\* the call of append_verdict_version inside apply_forward_change_note_as_new_version
ApplyAppend(c) ==
    LET latest == get_latest_verdict_version(db, cl[c].review_id)
    IN  /\ cl[c].pc = "append_verdict_version"
        /\ cl' = [cl EXCEPT ![c].pc = "create_verdict_version", ![c].latest = latest,
                            ![c].version = next_version(latest)]
        /\ UNCHANGED <<db, uuid, runVars, pubVars, jobVars>>

\* create_verdict_version: the insert, rejected when the key is taken
CreateVerdictVersion(c) ==
    /\ cl[c].pc = "create_verdict_version"
    /\ uuid' = uuid + 1
    /\ IF VerdictVersionKeyFree(db, cl[c].review_id, cl[c].version)
       THEN /\ db' = create_verdict_version(db, uuid', cl[c].review_id, cl[c].version,
                                            cl[c].arg.verdict, cl[c].arg.synthesis)
            /\ cl' = [cl EXCEPT ![c] = Ended(@, "returned", @.review_id)]
       ELSE /\ db' = db
            /\ cl' = [cl EXCEPT ![c] = Ended(@, "raised", @.review_id)]
    /\ UNCHANGED <<runVars, pubVars, jobVars>>

\* .order(col): ascending, rows with equal keys in stored order
OrderBy(rows, col) ==
    [ k \in 1..Len(rows) |->
        rows[CHOOSE i \in 1..Len(rows) :
                Cardinality({ j \in 1..Len(rows) :
                                \/ rows[j][col] < rows[i][col]
                                \/ rows[j][col] = rows[i][col] /\ j < i }) = k - 1] ]

\* add_human_feedback under a mutation: the feedback is written over the synthesis
\* of every verdict version of the review
add_human_feedback_rewriting(d, id, review_id, critique_text, forward_change_note) ==
    [d EXCEPT !.verdict_versions =
        [ i \in 1..Len(@) |->
            IF @[i].review_id = review_id THEN [@[i] EXCEPT !.synthesis = critique_text]
            ELSE @[i] ]]

add_human_feedback(d, id, review_id, critique_text, forward_change_note) ==
    [d EXCEPT !.human_feedback =
        Append(@, [ id |-> id, review_id |-> review_id, critique_text |-> critique_text,
                    forward_change_note |-> forward_change_note ])]

\* add_human_feedback: one insert
AddHumanFeedback(c) ==
    \E review_id \in ReviewIds :
        LET begun == [cl[c] EXCEPT !.ops = @ + 1, !.review_id = review_id,
                                   !.arg = [op |-> "add_human_feedback"]]
        IN  /\ CanStart(c)
            /\ uuid' = uuid + 1
            /\ db' = add_human_feedback(db, uuid', review_id, T("critique"), T("note"))
            /\ cl' = [cl EXCEPT ![c] = Ended(begun, "returned", review_id)]
            /\ UNCHANGED <<runVars, pubVars, jobVars>>

\* fetch_review_bundle: four selects; .single() raises unless exactly one row matches
FetchReviewBundle(c) ==
    \E review_id \in ReviewIds :
        LET review == SelectEq(db.reviews, "id", review_id)
            bundle == [ t |-> "bundle", review |-> review[1],
                        verdict_versions |->
                            OrderBy(SelectEq(db.verdict_versions, "review_id", review_id), "version"),
                        agent_messages |->
                            OrderBy(SelectEq(db.agent_messages, "review_id", review_id), "timestamp"),
                        human_feedback |-> SelectEq(db.human_feedback, "review_id", review_id) ]
            begun == [cl[c] EXCEPT !.ops = @ + 1, !.review_id = review_id,
                                   !.arg = [op |-> "fetch_review_bundle"]]
        IN  /\ CanStart(c)
            /\ cl' = [cl EXCEPT ![c] =
                        IF Len(review) = 1
                        THEN Ended([begun EXCEPT !.read = bundle], "returned", review_id)
                        ELSE Ended(begun, "raised", review_id)]
            /\ UNCHANGED <<db, uuid, runVars, pubVars, jobVars>>

\* list_reviews_for_paper: the reviews of a paper (created_at is the insertion order)
ListReviewsForPaper(c) ==
    \E paper_id \in { db.papers[i].id : i \in 1..Len(db.papers) } :
        LET rows == SelectEq(db.reviews, "paper_id", paper_id)
            begun == [cl[c] EXCEPT !.ops = @ + 1, !.paper_id = paper_id,
                                   !.arg = [op |-> "list_reviews_for_paper"],
                                   !.read = [ t |-> "rows",
                                              rows |-> [ k \in 1..Len(rows) |-> rows[Len(rows) + 1 - k] ] ]]
        IN  /\ CanStart(c)
            /\ cl' = [cl EXCEPT ![c] = Ended(begun, "returned", NoId)]
            /\ UNCHANGED <<db, uuid, runVars, pubVars, jobVars>>

\* compare_verdict_versions: two .single() selects
CompareVerdictVersions(c) ==
    \E review_id \in ReviewIds, v1 \in {1}, v2 \in {2} :
        LET of_review == SelectEq(db.verdict_versions, "review_id", review_id)
            a == SelectEq(of_review, "version", v1)
            b == SelectEq(of_review, "version", v2)
            begun == [cl[c] EXCEPT !.ops = @ + 1, !.review_id = review_id,
                                   !.arg = [op |-> "compare_verdict_versions"]]
        IN  /\ CanStart(c)
            /\ cl' = [cl EXCEPT ![c] =
                        IF Len(a) = 1 /\ Len(b) = 1
                        THEN Ended([begun EXCEPT !.read = [t |-> "pair", a |-> a[1], b |-> b[1]]],
                                   "returned", review_id)
                        ELSE Ended(begun, "raised", review_id)]
            /\ UNCHANGED <<db, uuid, runVars, pubVars, jobVars>>

StoreInit ==
    /\ db = EmptyDb
    /\ cl = [c \in Clients |-> IdleClient]
    /\ uuid = 0

StoreIdle == StoreInit

StoreNext ==
    \E c \in Clients :
        \/ StoreReviewState(c)
        \/ EnsurePaperInsert(c)
        \/ CreateReview(c)
        \/ AppendAgentMessages(c)
        \/ AppendVerdictVersion(c)
        \/ ApplyForwardChangeNote(c)
        \/ ApplyAppend(c)
        \/ CreateVerdictVersion(c)
        \/ AddHumanFeedback(c)
        \/ FetchReviewBundle(c)
        \/ ListReviewsForPaper(c)
        \/ CompareVerdictVersions(c)

\* store_review_state: the insert the call has reached (the review row, the message
\* batch or the verdict version) raises instead of adding its rows, the exception
\* leaves store_review_state, and the rows of the earlier inserts stay
InsertFails(c) ==
    /\ cl[c].pc \in {"create_review", "append_agent_messages", "create_verdict_version"}
    /\ cl[c].arg.op = "store_review_state"
    /\ cl' = [cl EXCEPT ![c] = Ended(@, "raised", @.review_id)]
    /\ UNCHANGED <<db, uuid, runVars, pubVars, jobVars>>

\* the store with inserts that may fail
FaultyStoreNext ==
    \/ StoreNext
    \/ \E c \in Clients : InsertFails(c)

\* --------------------------------------------------------------- job tracker
JobIds == {"j1", "j2"}

\* run_review: n = int(num_reviews) if int(num_reviews) > 0 else 1; n = min(max(n, 1), 6)
\* the clamp under a mutation: no upper limit
ClampReviewsFromBelow(num_reviews) ==
    IF num_reviews > 0 THEN num_reviews ELSE 1

ClampReviews(num_reviews) ==
    LET n == IF num_reviews > 0 THEN num_reviews ELSE 1
        m == IF n > 1 THEN n ELSE 1
    IN  IF m < 6 THEN m ELSE 6

\* the ReviewJob that run_review puts in _JOBS
ReviewJob(job_id, arxiv_id_or_url, allow_insecure_tls, persist_to_supabase, n, t) ==
    [ job_id |-> job_id, created_at |-> t, status |-> "submitted", step |-> T("submitted"),
      arxiv_id_or_url |-> arxiv_id_or_url, normalized_arxiv_id |-> "None",
      allow_insecure_tls |-> allow_insecure_tls, persist_to_supabase |-> persist_to_supabase,
      num_reviews |-> n, current_run |-> 0, messages_count |-> 0, last_agent |-> "None",
      last_phase |-> "None", error |-> JNull, artifacts |-> <<>>, persisted_reviews |-> <<>> ]

\* _set_job, the part under _JOBS_LOCK: setattr for every keyword, nothing for an unknown job
set_job(js, job_id, kwargs) ==
    IF job_id \in DOMAIN js THEN [js EXCEPT ![job_id] = DictUpdate(@, kwargs)] ELSE js

\* _set_job, the keys that are mirrored to the durable row
PatchKeys ==
    { "status", "step", "normalized_arxiv_id", "num_reviews", "current_run",
      "messages_count", "last_agent", "last_phase", "error" }

\* _set_job, the patch handed to update_job
patch_of(kwargs) == [k \in DOMAIN kwargs \cap PatchKeys |-> kwargs[k]]

\* durable writes, as the job task or a detached task hands them to a worker thread
CreateJobWrite(job_id, job) == [w |-> "create_job", job_id |-> job_id, data |-> job]
UpdateJobWrite(job_id, patch) == [w |-> "update_job", job_id |-> job_id, data |-> patch]
AppendEventWrite(job_id, event_type, payload) ==
    [w |-> "append_event", job_id |-> job_id, data |-> [event_type |-> event_type, payload |-> payload]]

\* the durable writes _set_job makes after the in-memory update
mirror_of(conf, job_id, kwargs) ==
    IF conf.jobs_repo # "None" /\ DOMAIN patch_of(kwargs) # {}
    THEN << UpdateJobWrite(job_id, patch_of(kwargs)) >>
    ELSE <<>>

\* the append_event that follows, when a jobs repository is configured
event_of(conf, job_id, event_type, payload) ==
    IF conf.jobs_repo # "None" THEN << AppendEventWrite(job_id, event_type, payload) >> ELSE <<>>

\* JobsRepository.create_job / update_job / append_event on the durable tables
durable_rows(rs, write) ==
    IF write.w = "create_job" /\ write.job_id \notin DOMAIN rs
        THEN rs @@ (write.job_id :> write.data)
    ELSE IF write.w = "update_job" /\ write.job_id \in DOMAIN rs
        THEN [rs EXCEPT ![write.job_id] = DictUpdate(@, write.data)]
    ELSE rs

durable_events(es, write) ==
    IF write.w = "append_event"
    THEN Append(es, [job_id |-> write.job_id, event_type |-> write.data.event_type,
                     payload |-> write.data.payload])
    ELSE es

\* keywords of the _set_job call of _progress_cb, under a mutation: status is written too
progress_kwargs_with_status(msg, messages_count) ==
    [ messages_count |-> messages_count, last_agent |-> msg.agent, last_phase |-> msg.phase,
      step |-> T("debating"), status |-> "adjudicating" ]

\* keywords of the _set_job call that _progress_cb schedules
progress_kwargs(msg, messages_count) ==
    [ messages_count |-> messages_count, last_agent |-> msg.agent, last_phase |-> msg.phase,
      step |-> T("debating") ]

\* the thread id under a mutation: keyed by the document
thread_id_of_document(job_id) == <<"job:", "2401.00001">>

\* thread_id = f"job:{job_id}"
thread_id_of(job_id) == <<"job:", job_id>>

\* the position of a job task: pc, the repetition i of n, the callback invocations of
\* the run so far, the TLS toggle found at the start, the durable writes it still
\* awaits, and the type of the exception that reached its except branch
\* (history: asked is the repetition count that was submitted, polled the answer of
\* the last status poll made after the task's end)
NoTask ==
    [pc |-> "none", i |-> 0, n |-> 0, count |-> 0, prior |-> "unset", io |-> <<>>, exc |-> "None",
     asked |-> 0, polled |-> NoRow]

\* the callback invocations of one orchestrator run that are followed: the first one
\* (the framing message of claim enumeration) and the last one (the synthesis)
ProgressPhases == << CLAIM_ENUMERATION, SYNTHESIS >>

\* the mutation: a task that goes on without yielding finds the event loop taken
FreeWhenIdle(j) == running = "none"

\* the job task is suspended at an await (or has ended) and nothing else is mid-step
Free(j) == running \in {"none", j}
\* after a step of j's task: it goes on without yielding unless it awaits a durable write
Goes(j, io) == IF io = <<>> THEN j ELSE "none"

\* repetition counts outside and at the ends of the range 1..6
ExtremeCounts == {-2, 6, 9}

\* the forms posted to /review: both jobs are for the same document; where a single
\* job is followed without durable stores, the forms carry the extreme counts
Submissions(j) ==
    IF cfg.max_jobs = 1 /\ cfg.jobs_repo = "None"
    THEN { [num_reviews |-> v, persist_to_supabase |-> FALSE, allow_insecure_tls |-> FALSE] :
              v \in ExtremeCounts }
    ELSE IF j = "j1"
    THEN { [num_reviews |-> 2, persist_to_supabase |-> TRUE, allow_insecure_tls |-> TRUE],
           [num_reviews |-> 0, persist_to_supabase |-> FALSE, allow_insecure_tls |-> FALSE] }
    ELSE { [num_reviews |-> 1, persist_to_supabase |-> FALSE, allow_insecure_tls |-> FALSE] }

\* run_review: the handler, up to asyncio.create_task
Submit(j) ==
    \E form \in Submissions(j) :
        LET job == ReviewJob(j, "2401.00001", form.allow_insecure_tls, form.persist_to_supabase,
                             ClampReviews(form.num_reviews), now)
            io == IF cfg.jobs_repo # "None"
                  THEN << CreateJobWrite(j, [k \in DOMAIN job \ {"job_id", "created_at"} |-> job[k]]),
                          AppendEventWrite(j, "state", [status |-> "submitted", step |-> T("submitted")]) >>
                  ELSE <<>>
        IN  /\ running = "none"
            /\ j \notin DOMAIN jobs
            /\ Cardinality(DOMAIN jobs) < cfg.max_jobs
            /\ jobs' = jobs @@ (j :> job)
            /\ task' = [task EXCEPT ![j] = [NoTask EXCEPT !.pc = "queued", !.io = io,
                                                          !.asked = form.num_reviews]]
            /\ UNCHANGED <<pending, detached, cfg, job_rows, job_events, running, environ, callbacks, otherThanJobs>>

\* _run_review_job: _set_job(status="adjudicating", step="starting")
StartJob(j) ==
    LET kwargs == [status |-> "adjudicating", step |-> T("starting")]
        io == mirror_of(cfg, j, kwargs) \o event_of(cfg, j, "state", kwargs)
    IN  /\ task[j].pc = "queued" /\ task[j].io = <<>> /\ running = "none"
        /\ jobs' = set_job(jobs, j, kwargs)
        /\ task' = [task EXCEPT ![j].pc = "starting", ![j].io = io]
        /\ running' = Goes(j, io)
        /\ UNCHANGED <<pending, detached, cfg, job_rows, job_events, environ, callbacks, otherThanJobs>>

\* register the callback, read the job, set the TLS toggle, _set_job(step="ingesting")
BeginIngest(j) ==
    LET kwargs == [step |-> T("ingesting")]
        io == mirror_of(cfg, j, kwargs) \o event_of(cfg, j, "step", kwargs)
    IN  /\ task[j].pc = "starting" /\ task[j].io = <<>> /\ Free(j)
        /\ callbacks' = [tid \in DOMAIN callbacks \cup {thread_id_of(j)} |->
                            IF tid = thread_id_of(j) THEN j ELSE callbacks[tid]]
        /\ environ' = IF jobs[j].allow_insecure_tls THEN "1" ELSE "unset"
        /\ jobs' = set_job(jobs, j, kwargs)
        /\ task' = [task EXCEPT ![j].pc = "normalizing", ![j].io = io, ![j].prior = environ,
                                ![j].n = jobs[j].num_reviews]
        /\ running' = Goes(j, io)
        /\ UNCHANGED <<pending, detached, cfg, job_rows, job_events, otherThanJobs>>

\* _set_job(normalized_arxiv_id=normalized), then the await of ingest_arxiv_paper
Normalize(j) ==
    LET kwargs == [normalized_arxiv_id |-> jobs[j].arxiv_id_or_url]
    IN  /\ task[j].pc = "normalizing" /\ task[j].io = <<>> /\ Free(j)
        /\ jobs' = set_job(jobs, j, kwargs)
        /\ task' = [task EXCEPT ![j].pc = "ingesting", ![j].io = mirror_of(cfg, j, kwargs)]
        /\ running' = "none"
        /\ UNCHANGED <<pending, detached, cfg, job_rows, job_events, environ, callbacks, otherThanJobs>>

\* the except branch of the job task: _set_job(status="error", step="error", error=...)
\* the error text under a mutation: str(e) alone
error_text_message_only(e) == JStr(e.text)
\* f"{type(e).__name__}: {e}"
error_text(e) == JStr(<<e.type, ": ">> \o e.text)
\* the except branch under a mutation: the results recorded so far are dropped
fail_job_clearing(js, j, e) ==
    set_job(js, j, [status |-> "error", step |-> T("error"), error |-> error_text(e),
                    artifacts |-> <<>>, persisted_reviews |-> <<>>])
fail_job(js, j, e) ==
    set_job(js, j, [status |-> "error", step |-> T("error"), error |-> error_text(e)])
\* the durable writes of the except branch under a mutation: no 'state' event
fail_io_without_event(j, e) ==
    mirror_of(cfg, j, [status |-> "error", step |-> T("error"), error |-> error_text(e)])

\* the durable writes of the except branch: the mirror of _set_job, then the 'state' event
fail_io(j, e) ==
    mirror_of(cfg, j, [status |-> "error", step |-> T("error"), error |-> error_text(e)])
    \o event_of(cfg, j, "state", [status |-> "error", error |-> error_text(e)])

\* the top of the loop: _set_job(current_run=i, step=f"reviewing ({i}/{num_reviews})")
run_start_kwargs(i, n) == [current_run |-> i, step |-> <<"reviewing (", str(i), "/", str(n), ")">>]
run_start_io(j, i, n) ==
    mirror_of(cfg, j, run_start_kwargs(i, n))
    \o event_of(cfg, j, "run_start", [run |-> i, num_reviews |-> n])

\* the exceptions followed; str(e) of the second is empty (raised without a message)
IngestError == [type |-> "RuntimeError", text |-> T("arXiv fetch failed")]
DebateError == [type |-> "ValueError", text |-> <<>>]
ArtifactsError == [type |-> "OSError", text |-> T("cannot write report")]

\* the step under a mutation: the exception of ingest_arxiv_paper is recorded but the
\* loop is entered all the same
IngestReturnGoesOn(j) ==
    \E outcome \in {"paper", "raised"} :
        /\ task[j].pc = "ingesting" /\ task[j].io = <<>> /\ running = "none"
        /\ environ' = task[j].prior
        /\ jobs' = set_job(jobs, j, run_start_kwargs(1, task[j].n))
        /\ task' = [task EXCEPT ![j].pc = "debating", ![j].i = 1, ![j].count = 0,
                                ![j].io = run_start_io(j, 1, task[j].n),
                                ![j].exc = IF outcome = "raised" THEN IngestError.type ELSE @]
        /\ running' = "none"
        /\ UNCHANGED <<pending, detached, cfg, job_rows, job_events, callbacks, otherThanJobs>>

\* ingest_arxiv_paper returns or raises; the TLS toggle is restored; the first run is announced
IngestReturn(j) ==
    \E outcome \in {"paper", "raised"} :
        /\ task[j].pc = "ingesting" /\ task[j].io = <<>> /\ running = "none"
        /\ environ' = task[j].prior
        /\ IF outcome = "paper"
           THEN /\ jobs' = set_job(jobs, j, run_start_kwargs(1, task[j].n))
                /\ task' = [task EXCEPT ![j].pc = "debating", ![j].i = 1, ![j].count = 0,
                                        ![j].io = run_start_io(j, 1, task[j].n)]
                /\ running' = "none"
           ELSE /\ jobs' = fail_job(jobs, j, IngestError)
                /\ task' = [task EXCEPT ![j].pc = "ending", ![j].io = fail_io(j, IngestError),
                                        ![j].exc = IngestError.type]
                /\ running' = Goes(j, task'[j].io)
        /\ UNCHANGED <<pending, detached, cfg, job_rows, job_events, callbacks, otherThanJobs>>

\* one callback invocation of the run in progress: _progress_cb schedules the update
\* (and the agent_message event), or returns without scheduling
DebateMessage(j) ==
    \E scheduled \in BOOLEAN :
        LET count == task[j].count + 1
            msg == [agent |-> MODERATOR, phase |-> ProgressPhases[count]]
            registered == thread_id_of(j) \in DOMAIN callbacks
            \* the job whose _progress_cb is registered under the thread id of this run
            cb == callbacks[thread_id_of(j)]
        IN  /\ task[j].pc = "debating" /\ task[j].io = <<>> /\ running = "none"
            /\ task[j].count < Len(ProgressPhases)
            /\ scheduled => (registered /\ Len(pending[cb]) + Len(detached) < MaxPending)
            /\ task' = [task EXCEPT ![j].count = count]
            /\ pending' = IF scheduled
                          THEN [pending EXCEPT ![cb] = Append(@, progress_kwargs(msg, count))]
                          ELSE pending
            /\ detached' = IF scheduled /\ cfg.jobs_repo # "None"
                           THEN Append(detached, AppendEventWrite(cb, "agent_message",
                                                    [agent |-> msg.agent, phase |-> msg.phase]))
                           ELSE detached
            /\ UNCHANGED <<jobs, cfg, job_rows, job_events, running, environ, callbacks, otherThanJobs>>

\* a scheduled progress update gets to run: _set_job(messages_count=.., step="debating")
ProgressUpdate(j) ==
    /\ pending[j] # <<>> /\ running = "none"
    /\ jobs' = set_job(jobs, j, Head(pending[j]))
    /\ pending' = [pending EXCEPT ![j] = Tail(@)]
    /\ detached' = detached \o mirror_of(cfg, j, Head(pending[j]))
    /\ UNCHANGED <<task, cfg, job_rows, job_events, running, environ, callbacks, otherThanJobs>>

\* run_debate_async returns or raises; the artifacts are written and recorded
DebateReturn(j) ==
    \E outcome \in {"state", "raised", "artifacts raised"} :
        LET i == task[j].i
            artifact_row == [run |-> i, report_md |-> <<"report", str(i)>>]
            artifacts == Append(jobs[j].artifacts, artifact_row)
            io == IF cfg.jobs_repo # "None"
                  THEN << UpdateJobWrite(j, [artifacts |-> artifacts]),
                          AppendEventWrite(j, "artifacts", [run |-> i, artifacts |-> artifact_row]) >>
                  ELSE <<>>
            e == IF outcome = "raised" THEN DebateError ELSE ArtifactsError
        IN  /\ task[j].pc = "debating" /\ task[j].io = <<>> /\ running = "none"
            /\ outcome # "raised" => task[j].count = Len(ProgressPhases)
            /\ IF outcome = "state"
               THEN /\ jobs' = [jobs EXCEPT ![j].artifacts = artifacts]
                    /\ task' = [task EXCEPT ![j].pc = "persist", ![j].io = io]
                    /\ running' = Goes(j, io)
               ELSE /\ jobs' = fail_job(jobs, j, e)
                    /\ task' = [task EXCEPT ![j].pc = "ending", ![j].io = fail_io(j, e),
                                            ![j].exc = e.type]
                    /\ running' = Goes(j, task'[j].io)
            /\ UNCHANGED <<pending, detached, cfg, job_rows, job_events, environ, callbacks, otherThanJobs>>

\* the persistence flag is read; _set_job(step=f"persisting ({i}/{num_reviews})") when set
Persist(j) ==
    LET kwargs == [step |-> <<"persisting (", str(task[j].i), "/", str(task[j].n), ")">>]
    IN  /\ task[j].pc = "persist" /\ task[j].io = <<>> /\ Free(j)
        /\ IF jobs[j].persist_to_supabase
           THEN /\ jobs' = set_job(jobs, j, kwargs)
                /\ task' = [task EXCEPT ![j].pc = "store", ![j].io = mirror_of(cfg, j, kwargs)]
           ELSE /\ jobs' = jobs
                /\ task' = [task EXCEPT ![j].pc = "next"]
        /\ running' = Goes(j, task'[j].io)
        /\ UNCHANGED <<pending, detached, cfg, job_rows, job_events, environ, callbacks, otherThanJobs>>

\* the record under a mutation: a failed store leaves a record without an error text
persisted_record_silent(i, outcome) ==
    IF outcome = "stored" THEN [run |-> i, review_id |-> <<"review", str(i)>>, version |-> 1]
    ELSE [run |-> i]

\* the record appended to persisted_reviews for run i
persisted_record(i, outcome) ==
    IF outcome = "stored" THEN [run |-> i, review_id |-> <<"review", str(i)>>, version |-> 1]
    ELSE IF outcome = "failed" THEN [run |-> i, error |-> T("insert failed")]
    ELSE [run |-> i, error |-> T("Supabase not configured")]

\* _maybe_get_repo() and store_review_state for run i
Store(j) ==
    \E outcome \in {"not configured", "stored", "failed"} :
        LET i == task[j].i
            persisted_reviews == Append(jobs[j].persisted_reviews, persisted_record(i, outcome))
            io == IF cfg.jobs_repo # "None" /\ outcome # "not configured"
                  THEN << UpdateJobWrite(j, [persisted_reviews |-> persisted_reviews]),
                          AppendEventWrite(j, IF outcome = "stored" THEN "persisted_review"
                                                                     ELSE "persist_error",
                                           persisted_record(i, outcome)) >>
                  ELSE <<>>
        IN  /\ task[j].pc = "store" /\ task[j].io = <<>> /\ Free(j)
            /\ (outcome = "not configured") <=> (cfg.reviews_repo = "None")
            /\ jobs' = [jobs EXCEPT ![j].persisted_reviews = persisted_reviews]
            /\ task' = [task EXCEPT ![j].pc = "next", ![j].io = io]
            /\ running' = Goes(j, io)
            /\ UNCHANGED <<pending, detached, cfg, job_rows, job_events, environ, callbacks, otherThanJobs>>

\* the next repetition is announced, or the loop is over: _set_job(status="adjudicated", ..)
NextRun(j) ==
    LET i == task[j].i + 1
        kwargs == [status |-> "adjudicated", step |-> T("complete")]
    IN  /\ task[j].pc = "next" /\ task[j].io = <<>> /\ Free(j)
        /\ IF i <= task[j].n
           THEN /\ jobs' = set_job(jobs, j, run_start_kwargs(i, task[j].n))
                /\ task' = [task EXCEPT ![j].pc = "debating", ![j].i = i, ![j].count = 0,
                                        ![j].io = run_start_io(j, i, task[j].n)]
                /\ running' = "none"
           ELSE /\ jobs' = set_job(jobs, j, kwargs)
                /\ task' = [task EXCEPT ![j].pc = "ending",
                                        ![j].io = mirror_of(cfg, j, kwargs) \o event_of(cfg, j, "state", kwargs)]
                /\ running' = Goes(j, task'[j].io)
        /\ UNCHANGED <<pending, detached, cfg, job_rows, job_events, environ, callbacks, otherThanJobs>>

\* unregister_progress_callback under a mutation: the entry stays
unregister_progress_callback_keeping(cbs, thread_id) == cbs

\* _PROGRESS_CALLBACKS.pop(thread_id, None)
unregister_progress_callback(cbs, thread_id) ==
    [tid \in DOMAIN cbs \ {thread_id} |-> cbs[tid]]

\* finally: unregister_progress_callback(thread_id); the task ends
EndJob(j) ==
    /\ task[j].pc = "ending" /\ task[j].io = <<>> /\ Free(j)
    /\ callbacks' = unregister_progress_callback(callbacks, thread_id_of(j))
    /\ task' = [task EXCEPT ![j].pc = "done"]
    /\ running' = "none"
    /\ UNCHANGED <<jobs, pending, detached, cfg, job_rows, job_events, environ, otherThanJobs>>

\* job_status: the durable row (with its id as job_id) when a jobs repository is
\* configured and has the row, else the entry of _JOBS, else 404
job_status(conf, rows, js, job_id) ==
    IF conf.jobs_repo # "None" /\ job_id \in DOMAIN rows
    THEN [ok |-> TRUE, job |-> [job_id |-> job_id] @@ rows[job_id]]
    ELSE IF job_id \in DOMAIN js
    THEN [ok |-> TRUE, job |-> js[job_id]]
    ELSE [ok |-> FALSE, error |-> T("Job not found")]

\* GET /jobs/{job_id}.json; the polls followed are those made once the tasks of all
\* the jobs of the deployment have ended
JobStatus(j) ==
    /\ Cardinality(DOMAIN jobs) = cfg.max_jobs
    /\ \A k \in DOMAIN jobs : task[k].pc = "done"
    /\ task' = [task EXCEPT ![j].polled = job_status(cfg, job_rows, jobs, j)]
    /\ UNCHANGED <<jobs, pending, detached, cfg, job_rows, job_events, running, environ, callbacks, otherThanJobs>>

\* the operations of the durable job store
WriteKinds == {"create_job", "update_job", "append_event"}

StoreError == [type |-> "APIError", text |-> T("relation does not exist")]

\* the handlers under a mutation: the exception of a failed write reaches the job task
except_reraise(js, j, ok) == IF ok THEN js ELSE fail_job(js, j, StoreError)

\* the handlers around a durable write (JobsRepository: except Exception: return;
\* _set_job and the job task: except Exception: pass): the in-memory jobs after it
except_pass(js, j, ok) == js

\* a worker thread performs the durable write the job task awaits (it fails when the
\* store fails on this operation)
DurableWrite(j) ==
    LET ok == Head(task[j].io).w \notin cfg.failing
    IN  /\ task[j].io # <<>>
        /\ job_rows' = IF ok THEN durable_rows(job_rows, Head(task[j].io)) ELSE job_rows
        /\ job_events' = IF ok THEN durable_events(job_events, Head(task[j].io)) ELSE job_events
        /\ task' = [task EXCEPT ![j].io = Tail(@)]
        /\ jobs' = except_pass(jobs, j, ok)
        /\ UNCHANGED <<pending, detached, cfg, running, environ, callbacks, otherThanJobs>>

\* a worker thread performs a durable write of a detached task (in any order)
DetachedWrite ==
    \E k \in 1..Len(detached) :
        LET ok == detached[k].w \notin cfg.failing
        IN  /\ job_rows' = IF ok THEN durable_rows(job_rows, detached[k]) ELSE job_rows
            /\ job_events' = IF ok THEN durable_events(job_events, detached[k]) ELSE job_events
            /\ detached' = SubSeq(detached, 1, k - 1) \o SubSeq(detached, k + 1, Len(detached))
            /\ jobs' = except_pass(jobs, detached[k].job_id, ok)
            /\ UNCHANGED <<task, pending, cfg, running, environ, callbacks, otherThanJobs>>

\* the failure patterns of the durable job store that are followed: the operations
\* that fail, on every call (none; the event insert alone, or with one or both of the
\* row operations)
FailurePatterns ==
    { {} } \cup { f \cup {"append_event"} : f \in SUBSET {"create_job", "update_job"} }

\* deployments: without durable stores (two concurrent jobs are followed, or one
\* job with an extreme repetition count), and with them (one job is followed)
JobConfigs ==
    { [jobs_repo |-> "None", reviews_repo |-> "None", max_jobs |-> m, failing |-> {}] :
         m \in {1, 2} }
    \cup { [jobs_repo |-> "ok", reviews_repo |-> "ok", max_jobs |-> 1, failing |-> f] :
             f \in FailurePatterns }

JobInit ==
    /\ jobs = <<>>
    /\ task = [j \in JobIds |-> NoTask]
    /\ pending = [j \in JobIds |-> <<>>]
    /\ detached = <<>>
    /\ cfg \in JobConfigs
    /\ job_rows = <<>>
    /\ job_events = <<>>
    /\ running = "none"
    /\ environ = "unset"

JobIdle ==
    /\ jobs = <<>>
    /\ task = [j \in JobIds |-> NoTask]
    /\ pending = [j \in JobIds |-> <<>>]
    /\ detached = <<>>
    /\ cfg = [jobs_repo |-> "None", reviews_repo |-> "None", max_jobs |-> 0, failing |-> {}]
    /\ job_rows = <<>>
    /\ job_events = <<>>
    /\ running = "none"
    /\ environ = "unset"

JobNext ==
    \/ \E j \in JobIds :
        \/ Submit(j)
        \/ StartJob(j)
        \/ BeginIngest(j)
        \/ Normalize(j)
        \/ IngestReturn(j)
        \/ DebateMessage(j)
        \/ ProgressUpdate(j)
        \/ DebateReturn(j)
        \/ Persist(j)
        \/ Store(j)
        \/ NextRun(j)
        \/ EndJob(j)
        \/ DurableWrite(j)
        \/ JobStatus(j)
    \/ DetachedWrite

\* ------------------------------------------------- at-least-once delivery
\* The durable store may be handed a write more than once (a request that is sent
\* again after its answer was lost). The writes followed: verdict-version inserts
\* (create_verdict_version) and job events (append_event).
VerdictVersionWrite(review_id, version, synthesis) ==
    [ w |-> "create_verdict_version", review_id |-> review_id, version |-> version,
      verdict |-> verdict_dict(NoVerdict), synthesis |-> synthesis ]

DeliverWrites ==
    { VerdictVersionWrite(1, 1, T("a")), VerdictVersionWrite(1, 2, T("b")),
      VerdictVersionWrite(2, 1, T("a")) }
    \cup { AppendEventWrite("j1", "state", [status |-> "submitted", step |-> T("submitted")]),
           AppendEventWrite("j1", "step", [step |-> T("ingesting")]),
           AppendEventWrite("j2", "state", [status |-> "submitted", step |-> T("submitted")]) }

\* deliveries made so far: each create_verdict_version draws an id, each append_event
\* that is performed adds a row
Deliveries == uuid + Len(job_events)

InFlightAfter(k, again) ==
    IF again THEN detached
    ELSE SubSeq(detached, 1, k - 1) \o SubSeq(detached, k + 1, Len(detached))

\* create_verdict_version is performed for a write in flight; the write stays in
\* flight when it will be delivered again
DeliverVerdictVersion ==
    \E k \in 1..Len(detached), again \in BOOLEAN :
        LET write == detached[k]
        IN  /\ write.w = "create_verdict_version"
            /\ Deliveries < MaxDeliveries
            /\ uuid' = uuid + 1
            /\ db' = IF VerdictVersionKeyFree(db, write.review_id, write.version)
                     THEN create_verdict_version(db, uuid', write.review_id, write.version,
                                                 write.verdict, write.synthesis)
                     ELSE db
            /\ detached' = InFlightAfter(k, again)
            /\ UNCHANGED <<cl, jobs, task, pending, cfg, job_rows, job_events, running, environ,
                           runVars, pubVars>>

\* append_event is performed for a write in flight
DeliverEvent ==
    \E k \in 1..Len(detached), again \in BOOLEAN :
        LET write == detached[k]
        IN  /\ write.w = "append_event"
            /\ Deliveries < MaxDeliveries
            /\ job_events' = durable_events(job_events, write)
            /\ detached' = InFlightAfter(k, again)
            /\ UNCHANGED <<db, cl, uuid, jobs, task, pending, cfg, job_rows, running, environ,
                           runVars, pubVars>>

DeliverInit ==
    /\ db = EmptyDb
    /\ cl = [c \in Clients |-> IdleClient]
    /\ uuid = 0
    /\ jobs = <<>>
    /\ task = [j \in JobIds |-> NoTask]
    /\ pending = [j \in JobIds |-> <<>>]
    /\ detached \in { <<w>> : w \in DeliverWrites }
                   \cup { ww \in DeliverWrites \X DeliverWrites : ww[1] # ww[2] }
    /\ cfg = [jobs_repo |-> "ok", reviews_repo |-> "ok", max_jobs |-> 0, failing |-> {}]
    /\ job_rows = <<>>
    /\ job_events = <<>>
    /\ running = "none"
    /\ environ = "unset"

DeliverNext == DeliverVerdictVersion \/ DeliverEvent

\* what the event loop, the worker threads and the collaborators do, as opposed to
\* the submissions, which no one has to make
JobStep ==
    \/ \E j \in JobIds :
        \/ StartJob(j)
        \/ BeginIngest(j)
        \/ Normalize(j)
        \/ IngestReturn(j)
        \/ DebateMessage(j)
        \/ ProgressUpdate(j)
        \/ DebateReturn(j)
        \/ Persist(j)
        \/ Store(j)
        \/ NextRun(j)
        \/ EndJob(j)
        \/ DurableWrite(j)
    \/ DetachedWrite

\* ----------------------------------------------------------- specifications
\* One orchestrator run (run_debate_async) over one paper.
InitRun == RunInit /\ PubIdle /\ StoreIdle /\ JobIdle
SpecRun == InitRun /\ [][RunNext]_vars

\* One call of evaluate_publishability on arbitrary arguments.
InitPub == PubInit /\ RunIdle /\ StoreIdle /\ JobIdle
SpecPub == InitPub /\ [][PubNext]_vars

\* advance_phase applied again and again to its own result, from any first input.
InitWalk == WalkInit /\ pub_in = [ verdict |-> NoVerdict, extraction_limitations |-> JNull,
                                    principle_violations |-> JNull ]
                     /\ pub_out = NoResult /\ RunIdle /\ StoreIdle /\ JobIdle
SpecWalk == InitWalk /\ [][WalkNext]_vars

\* Durable writes in flight to the store, each delivered any number of times.
InitDeliver == DeliverInit /\ RunIdle /\ PubIdle
SpecDeliver == InitDeliver /\ [][DeliverNext]_vars

\* Two clients of the review store, their operations interleaved at the database calls.
InitStoreFaulty == StoreInit /\ RunIdle /\ PubIdle /\ JobIdle
SpecStoreFaulty == InitStoreFaulty /\ [][FaultyStoreNext]_vars

InitStore == StoreInit /\ RunIdle /\ PubIdle /\ JobIdle
SpecStore == InitStore /\ [][StoreNext]_vars

\* Two jobs submitted to the web application, their tasks, progress updates and
\* durable writes interleaved as the event loop and the worker threads allow.
InitJobs == JobInit /\ RunIdle /\ PubIdle /\ StoreIdle
SpecJobs == InitJobs /\ [][JobNext]_vars

\* The same with a fair event loop and collaborators that return or raise: as long as
\* a task, a scheduled update or a durable write can take a step, one of them does.
InitJobsFair == JobInit /\ RunIdle /\ PubIdle /\ StoreIdle
SpecJobsFair == InitJobsFair /\ [][JobNext]_vars /\ WF_vars(JobStep)

\* ------------------------------------------------------------------ claims
\* the lookup _append_agent_message makes in _PROGRESS_CALLBACKS finds a callback
CallbackRegistered(s) ==
    (IF s.thread_id # NoTid THEN s.thread_id ELSE s.paper.arxiv_id) \in DOMAIN callbacks

PhasesOf(pt) == [i \in 1..Len(pt) |-> pt[i][1]]
Delivered(s) == [i \in 1..Len(s.cb_calls) |-> s.cb_calls[i].msg]

\* C1: whatever the runner returns, the phase of a run moves along the fixed chain
\* Initialization .. Complete, each phase once and in order; a run that returns has
\* visited all ten and recorded the nine transitions Initialization .. Synthesis, the
\* same sequence (length and order) as any other run with the same stub.
C1_PhaseOrder ==
    /\ IsPrefix(st.phase_log, DebatePhase)
    /\ IsPrefix(PhasesOf(st.phase_transitions), DebatePhase)
    /\ st.phase = st.phase_log[Len(st.phase_log)]
    /\ node = "END" =>
          /\ st.phase_log = DebatePhase
          /\ PhasesOf(st.phase_transitions) = SubSeq(DebatePhase, 1, Len(DebatePhase) - 1)
    /\ PhasesOf(ref.phase_transitions) = PhasesOf(st.phase_transitions)

\* a completed run in which fallbacks were taken (the runner returned unusable payloads)
C1_Witness ==
    /\ node = "END"
    /\ st.phase = COMPLETE
    /\ Len(st.phase_transitions) = 9
    /\ Len(st.extraction_limitations) >= 4

\* C8: within a run the message log only grows (every step leaves the earlier log
\* as a prefix of the new one), and the messages that carry runner output appear in
\* the order of the runner invocations.
C8_LogAppendOnly ==
    /\ [][IsPrefix(st.messages, st'.messages)]_vars
    /\ [](\A i, j \in 1..Len(st.messages) :
            (i < j /\ st.messages[i].inv > 0 /\ st.messages[j].inv > 0)
                => st.messages[i].inv < st.messages[j].inv)

\* the synthesis message has been appended after the eighteen earlier ones
C8_Witness ==
    /\ node = "END"
    /\ Len(st.messages) = 19
    /\ st.messages[19].phase = SYNTHESIS
    /\ st.messages[1].phase = INITIALIZATION

\* C9 (as claimed): while a callback is registered for the run, the messages passed
\* to it are exactly the messages of the log, in the order of the log.
C9_EveryMessageForwarded ==
    CallbackRegistered(st) => Delivered(st) = st.messages

\* C10: a callback that raises changes nothing: the message it was called with is
\* in the log, every field of the state (the exception in flight included) equals
\* that of the run in which the callback returned normally, and a run that ends
\* has reached Complete.
C10_CallbackRaiseSwallowed ==
    /\ \A i \in 1..Len(st.cb_calls) :
          /\ st.cb_calls[i].count <= Len(st.messages)
          /\ st.messages[st.cb_calls[i].count] = st.cb_calls[i].msg
    /\ st.exc # "callback"
    /\ [st EXCEPT !.cb_raised = FALSE] = ref
    /\ node = "END" => st.phase = COMPLETE

\* a callback raised during the run and the run completed
C10_Witness ==
    /\ st.cb_raised
    /\ node = "END"
    /\ st.phase = COMPLETE
    /\ Len(st.cb_calls) > 0

\* the verdict argument holds five axes in 1..5 (as an object or as a mapping)
PubVerdictGiven == pub_in.verdict.t = "verdict" \/ VerdictValid(pub_in.verdict)
PubAxis(name) ==
    IF pub_in.verdict.t = "verdict" THEN pub_in.verdict[name] ELSE pub_in.verdict.v[name].v
PubReturned == pub_out # NoResult
NonBlankIn(xs) == \E i \in 1..Len(OrEmpty(xs)) : strip(OrEmpty(xs)[i]) # <<>>

\* C5: the decision table. No verdict gives unverified / not publishable /
\* provisional; a verdict with axes in 1..5 gives publishable when soundness >= 3,
\* evidence >= 3 and overreach <= 3, revise_resubmit when soundness >= 3,
\* overreach <= 3 and evidence < 3, reject otherwise; publishable is true exactly
\* for the decision publishable.
C5_DecisionTable ==
    PubReturned =>
        /\ pub_in.verdict.t = "null" =>
              /\ pub_out.t = "result"
              /\ pub_out.decision = "unverified"
              /\ ~pub_out.publishable
              /\ pub_out.provisional
        /\ PubVerdictGiven =>
              LET ms == PubAxis("methodological_soundness")
                  es == PubAxis("evidence_strength")
                  ro == PubAxis("risk_of_overreach")
              IN  /\ pub_out.t = "result"
                  /\ (ms >= 3 /\ es >= 3 /\ ro <= 3) => pub_out.decision = "publishable"
                  /\ (ms >= 3 /\ ro <= 3 /\ es < 3) => pub_out.decision = "revise_resubmit"
                  /\ (ms < 3 \/ ro > 3) => pub_out.decision = "reject"
                  /\ pub_out.publishable <=> pub_out.decision = "publishable"

\* soundness passes, evidence fails and overreach is 4: reject, not revise_resubmit
C5_Witness ==
    /\ PubReturned
    /\ pub_in.verdict.t = "verdict"
    /\ pub_in.verdict.methodological_soundness = 5
    /\ pub_in.verdict.evidence_strength = 2
    /\ pub_in.verdict.risk_of_overreach = 4
    /\ pub_out.decision = "reject"

\* C6 (as claimed): for a verdict that is present, provisional is true exactly when
\* the limitations list or the violations list is non-empty, and decision and
\* publishable are those returned for the same verdict with both lists empty.
C6_ProvisionalIffNonEmpty ==
    (PubReturned /\ PubVerdictGiven) =>
        /\ pub_out.provisional <=>
              (OrEmpty(pub_in.extraction_limitations) # <<>>
                 \/ OrEmpty(pub_in.principle_violations) # <<>>)
        /\ pub_out.decision = evaluate_publishability(pub_in.verdict, JList(<<>>), JList(<<>>)).decision
        /\ pub_out.publishable = evaluate_publishability(pub_in.verdict, JList(<<>>), JList(<<>>)).publishable

\* C6 (amended): for a verdict that is present, provisional is true exactly when the
\* limitations list or the violations list holds an entry that is not blank (not
\* empty after stripping whitespace); decision and publishable are those returned
\* for the same verdict with both lists empty.
C6_ProvisionalIffNonBlank ==
    (PubReturned /\ PubVerdictGiven) =>
        /\ pub_out.provisional <=>
              (NonBlankIn(pub_in.extraction_limitations) \/ NonBlankIn(pub_in.principle_violations))
        /\ pub_out.decision = evaluate_publishability(pub_in.verdict, JList(<<>>), JList(<<>>)).decision
        /\ pub_out.publishable = evaluate_publishability(pub_in.verdict, JList(<<>>), JList(<<>>)).publishable

\* a violations list with text and a limitations list with only a blank entry
C6_Witness ==
    /\ PubReturned
    /\ PubVerdictGiven
    /\ pub_in.extraction_limitations = JList(<< <<" ">> >>)
    /\ pub_in.principle_violations = JList(<< <<"x">> >>)
    /\ pub_out.provisional
    /\ pub_out.decision = "publishable"

\* C7: for a verdict that is present the reasons are, in this order, one entry for
\* each failing gate (soundness, evidence, overreach), then the limitations note when
\* the limitations list has a non-blank entry, then the violations note when the
\* violations list has one, and nothing else; so none when every gate passes and
\* both lists are empty.
C7_ReasonsOrder ==
    (PubReturned /\ PubVerdictGiven) =>
        LET ms == PubAxis("methodological_soundness")
            es == PubAxis("evidence_strength")
            ro == PubAxis("risk_of_overreach")
            expected ==
                (IF ms < 3 THEN << <<"Methodological soundness too low (", str(ms), "/5)">> >> ELSE <<>>)
                \o (IF es < 3 THEN << <<"Evidence strength too low (", str(es), "/5)">> >> ELSE <<>>)
                \o (IF ro > 3 THEN << <<"Risk of overreach too high (", str(ro), "/5)">> >> ELSE <<>>)
                \o (IF NonBlankIn(pub_in.extraction_limitations)
                      THEN << <<"Provisional: extraction/tooling limitations present">> >> ELSE <<>>)
                \o (IF NonBlankIn(pub_in.principle_violations)
                      THEN << <<"Provisional: principle violations were flagged">> >> ELSE <<>>)
        IN  /\ pub_out.reasons = expected
            /\ (ms >= 3 /\ es >= 3 /\ ro <= 3
                  /\ OrEmpty(pub_in.extraction_limitations) = <<>>
                  /\ OrEmpty(pub_in.principle_violations) = <<>>) => pub_out.reasons = <<>>

\* all three gates fail and both provisional notes are present: five reasons
C7_Witness ==
    /\ PubReturned
    /\ PubVerdictGiven
    /\ Len(pub_out.reasons) = 5
    /\ pub_out.reasons[1][1] = "Methodological soundness too low ("
    /\ pub_out.reasons[5] = <<"Provisional: principle violations were flagged">>

\* the verdict-version rows of a review, in insertion order
VersionsOf(review_id) == SelectEq(db.verdict_versions, "review_id", review_id)
VersionedReviews == { db.verdict_versions[i].review_id : i \in 1..Len(db.verdict_versions) }
\* client c has returned from apply_forward_change_note_as_new_version
AppliedNote(c) == cl[c].result.t = "returned" /\ cl[c].result.op = "apply_forward_change_note"
\* the row that operation inserted
NoteVersion(c) ==
    LET rows == VersionsOf(cl[c].result.review_id)
    IN  rows[CHOOSE i \in 1..Len(rows) : rows[i].version = cl[c].result.version]

StatusFlow ==
    { <<"submitted", "adjudicating">>, <<"adjudicating", "adjudicated">>,
      <<"adjudicating", "error">> }

\* C2: in every step of every interleaving of the job tasks, their progress updates
\* and the durable writes, a job is created with status submitted, is never removed,
\* and its status either stays or moves along submitted -> adjudicating ->
\* adjudicated | error; so adjudicated and error are never left.
C2_StatusFlow ==
    [][\A j \in JobIds :
        /\ (j \notin DOMAIN jobs /\ j \in DOMAIN jobs') => jobs'[j].status = "submitted"
        /\ j \in DOMAIN jobs =>
              /\ j \in DOMAIN jobs'
              /\ \/ jobs'[j].status = jobs[j].status
                 \/ <<jobs[j].status, jobs'[j].status>> \in StatusFlow]_vars

\* a progress update ran after its job was adjudicated, while the other job failed
C2_Witness ==
    /\ DOMAIN jobs = JobIds
    /\ \E j, k \in JobIds :
          /\ task[j].pc = "done"
          /\ jobs[j].status = "adjudicated"
          /\ jobs[j].step = T("debating")
          /\ jobs[k].status = "error"

\* the job task has left its try statement: the except branch or the last status
\* write has run
TaskEnded(j) == task[j].pc \in {"ending", "done"}

\* C11: a job exists from its submission on and has status submitted until its task
\* starts; when the task has ended without an exception (ingestion and all num_reviews
\* repetitions succeeded) the status is adjudicated, there is no error text and the
\* artifacts list has exactly num_reviews entries; when an exception reached the except
\* branch the status is error and the error text is a non-empty string.
C11_JobOutcome ==
    \A j \in JobIds :
        /\ (j \in DOMAIN jobs) <=> (task[j].pc # "none")
        /\ task[j].pc = "queued" => jobs[j].status = "submitted"
        /\ (TaskEnded(j) /\ task[j].exc = "None") =>
              /\ jobs[j].status = "adjudicated"
              /\ jobs[j].error = JNull
              /\ Len(jobs[j].artifacts) = jobs[j].num_reviews
        /\ (TaskEnded(j) /\ task[j].exc # "None") =>
              /\ jobs[j].status = "error"
              /\ jobs[j].error.t = "str"
              /\ jobs[j].error.v # <<>>

\* one job succeeded, the other ended on an exception raised without a message
C11_Witness ==
    /\ task["j2"].pc = "done" /\ task["j2"].exc = "None"
    /\ Len(jobs["j2"].artifacts) = 1
    /\ task["j1"].pc = "done" /\ task["j1"].exc = DebateError.type
    /\ task["j1"].i = 2

\* the repetitions of job j whose artifacts have been written
Completed(j) ==
    IF task[j].pc \in {"persist", "store", "next"} \/ (TaskEnded(j) /\ task[j].exc = "None")
    THEN task[j].i
    ELSE IF task[j].i > 0 THEN task[j].i - 1 ELSE 0

\* C12: in every state the artifacts list of a job holds one entry for each completed
\* repetition, for the runs 1..k in order, with k <= current_run <= num_reviews; every
\* step leaves the entries of artifacts and of persisted_reviews in place and appends at
\* most one; the step in which a repetition fails leaves both lists as they were.
C12_ArtifactsKept ==
    [][\A j \in DOMAIN jobs :
          LET a == jobs[j].artifacts
              k == Len(a)
          IN  /\ k = Completed(j)
              /\ \A r \in 1..k : a[r].run = r
              /\ k <= jobs[j].current_run /\ jobs[j].current_run <= jobs[j].num_reviews
              /\ IsPrefix(a, jobs'[j].artifacts)
              /\ Len(jobs'[j].artifacts) <= k + 1
              /\ IsPrefix(jobs[j].persisted_reviews, jobs'[j].persisted_reviews)
              /\ Len(jobs'[j].persisted_reviews) <= Len(jobs[j].persisted_reviews) + 1
              /\ (task'[j].exc # "None") =>
                    /\ jobs'[j].artifacts = a
                    /\ jobs'[j].persisted_reviews = jobs[j].persisted_reviews]_vars

\* the second of two repetitions failed: the artifacts and the stored review of the
\* first are still there
C12_Witness ==
    /\ "j1" \in DOMAIN jobs
    /\ task["j1"].pc = "done" /\ task["j1"].exc # "None"
    /\ jobs["j1"].status = "error"
    /\ jobs["j1"].num_reviews = 2 /\ jobs["j1"].current_run = 2
    /\ Len(jobs["j1"].artifacts) = 1
    /\ Len(jobs["j1"].persisted_reviews) = 1
    /\ "review_id" \in DOMAIN jobs["j1"].persisted_reviews[1]

\* the phases whose node asks an investigating role for a structured payload
StructuredPhases ==
    { CLAIM_ENUMERATION, METHODOLOGICAL_REVIEW, EVIDENCE_REVIEW, PROGRESS_EVALUATION,
      VERDICT_ASSIGNMENT }

Lacks(raw, key) == JGet(raw, key).t = "null"

\* the runner returned no parsed payload, or one without the field the phase asks for
\* (an evidence payload may carry its finding in "overall")
Unusable(p, raw) ==
    \/ raw.t # "dict"
    \/ CASE p = CLAIM_ENUMERATION -> Lacks(raw, "claims")
         [] p = METHODOLOGICAL_REVIEW -> Lacks(raw, "findings")
         [] p = EVIDENCE_REVIEW -> Lacks(raw, "findings") /\ Lacks(raw, "overall")
         [] p = PROGRESS_EVALUATION -> Lacks(raw, "findings")
         [] p = VERDICT_ASSIGNMENT -> \E i \in 1..Len(VerdictAxes) : Lacks(raw, VerdictAxes[i])
         [] OTHER -> FALSE

\* C13 (as claimed): the step that runs a structured phase on an unusable payload
\* leaves the limitations list longer than it found it.
C13_NoSilentDegradation ==
    [][\A p \in StructuredPhases :
          (st.phase # p /\ st'.phase = p /\ st'.exc = NoExc /\ Unusable(p, st'.last_raw))
              => Len(st'.extraction_limitations) > Len(st.extraction_limitations)]_vars

\* the claims payload is absent, has no claims list, or lists blank entries only
UnparseableClaims(raw) ==
    \/ ~JTruthy(raw)
    \/ JGet(raw, "claims").t # "list"
    \/ \A i \in 1..Len(JGet(raw, "claims").v) : strip(JGet(raw, "claims").v[i]) = <<>>

ClaimFallbackNote ==
    T("Claim extraction JSON parse failed; fell back to heuristic claims from abstract.")

\* C14: claim enumeration on unparseable runner output does not raise: the run goes on
\* to the methodological review with the document's heuristic claims (or else its
\* abstract) as the enumerated claims and with one more limitation; the later phases
\* keep the enumerated claims and the limitations; a run ends only in Complete, then
\* with a non-empty claims list, and nothing but the conflict-of-interest collaborator
\* aborts it.
C14_ClaimFallback ==
    /\ [][(st.phase = INITIALIZATION /\ st'.phase = CLAIM_ENUMERATION
             /\ UnparseableClaims(st'.last_raw)) =>
            /\ node' = "review_methodology"
            /\ st'.enumerated_claims =
                  (IF st.paper.claims # <<>> THEN st.paper.claims ELSE <<st.paper.abstract>>)
            /\ st'.enumerated_claims # <<>>
            /\ Len(st'.extraction_limitations) > Len(st.extraction_limitations)
            /\ st'.extraction_limitations[Len(st'.extraction_limitations)] = ClaimFallbackNote]_vars
    /\ [][st.phase # INITIALIZATION =>
            /\ st'.enumerated_claims = st.enumerated_claims
            /\ IsPrefix(st.extraction_limitations, st'.extraction_limitations)]_vars
    /\ [](node = "END" => (st.phase = COMPLETE /\ st.enumerated_claims # <<>>))
    /\ [](node = "FAILED" => st.exc = "coi")

\* a run on a document without heuristic claims whose claims payload was unusable is
\* complete, with the abstract as its only claim
C14_Witness ==
    /\ node = "END" /\ st.phase = COMPLETE
    /\ st.paper.claims = <<>>
    /\ st.enumerated_claims = <<st.paper.abstract>>
    /\ \E i \in 1..Len(st.extraction_limitations) : st.extraction_limitations[i] = ClaimFallbackNote

\* five integer axes in 1..5 and a rationale text
WellFormedVerdict(raw) ==
    /\ raw.t = "dict"
    /\ \A i \in 1..Len(VerdictAxes) :
          /\ JGet(raw, VerdictAxes[i]).t = "int"
          /\ JGet(raw, VerdictAxes[i]).v \in 1..5
    /\ JGet(raw, "rationale").t = "str"

\* C15: from verdict assignment on the run has a verdict with five axes in 1..5; the
\* step of verdict assignment takes a well-formed payload as it is and appends no
\* limitation, and replaces any other payload by the placeholder (3,3,3,3,3) and
\* appends exactly one limitation.
C15_VerdictAlways ==
    /\ [](st.phase \in {VERDICT_ASSIGNMENT, SYNTHESIS, COMPLETE} =>
            /\ st.verdict # NoVerdict
            /\ \A i \in 1..Len(VerdictAxes) : st.verdict[VerdictAxes[i]] \in 1..5)
    /\ [][(st.phase # VERDICT_ASSIGNMENT /\ st'.phase = VERDICT_ASSIGNMENT) =>
            IF WellFormedVerdict(st'.last_raw)
            THEN /\ \A i \in 1..Len(VerdictAxes) :
                       st'.verdict[VerdictAxes[i]] = st'.last_raw.v[VerdictAxes[i]].v
                 /\ st'.verdict.rationale = st'.last_raw.v.rationale.v
                 /\ st'.extraction_limitations = st.extraction_limitations
            ELSE /\ \A i \in 1..Len(VerdictAxes) : st'.verdict[VerdictAxes[i]] = 3
                 /\ Len(st'.extraction_limitations) = Len(st.extraction_limitations) + 1
                 /\ IsPrefix(st.extraction_limitations, st'.extraction_limitations)]_vars

\* the payload had a score of 6: the run is complete with the placeholder verdict
C15_Witness ==
    /\ node = "END"
    /\ st.last_raw.t = "dict" /\ JGet(st.last_raw, "novelty_value") = JInt(6)
    /\ st.verdict.novelty_value = 3 /\ st.verdict.methodological_soundness = 3
    /\ st.extraction_limitations[Len(st.extraction_limitations)]
          = T("Verdict JSON parse failed; placeholder verdict used.")

\* C16 (as claimed): whatever the conflict-of-interest collaborator raises, the run is
\* not aborted, and from the conflict-of-interest review on coi_findings has an entry.
C16_CoiFailureIsolated ==
    /\ node # "FAILED"
    /\ st.exc = NoExc
    /\ st.phase \in {PROGRESS_EVALUATION, DELIBERATION, VERDICT_ASSIGNMENT, SYNTHESIS, COMPLETE}
          => T("coi_report") \in DOMAIN st.coi_findings

\* C17: a job whose ingestion raised has ended with status error and the error text of
\* that exception, and no orchestrator run was started for it: current_run is 0, the
\* artifacts and persisted-review lists are empty, no callback invocation of a run
\* took place and no progress update was scheduled or applied.
C17_IngestionFatal ==
    \A j \in DOMAIN jobs :
        task[j].exc = IngestError.type =>
            /\ TaskEnded(j)
            /\ jobs[j].status = "error"
            /\ jobs[j].error = error_text(IngestError)
            /\ jobs[j].current_run = 0 /\ task[j].i = 0
            /\ jobs[j].artifacts = <<>>
            /\ jobs[j].persisted_reviews = <<>>
            /\ task[j].count = 0 /\ pending[j] = <<>>
            /\ jobs[j].messages_count = 0 /\ jobs[j].last_phase = "None"

\* the task of a job that asked for two repetitions and persistence has finished
\* after its ingestion failed
C17_Witness ==
    /\ "j1" \in DOMAIN jobs
    /\ task["j1"].pc = "done" /\ task["j1"].exc = IngestError.type
    /\ jobs["j1"].num_reviews = 2 /\ jobs["j1"].persist_to_supabase
    /\ jobs["j1"].step = T("error")

\* the repetitions of job j that have passed their persistence step
Stored(j) ==
    IF ~jobs[j].persist_to_supabase THEN 0
    ELSE IF task[j].pc = "next" \/ (TaskEnded(j) /\ task[j].exc = "None") THEN task[j].i
    ELSE IF task[j].i > 0 THEN task[j].i - 1 ELSE 0

\* C18: persisted_reviews holds one record for each repetition that has passed its
\* persistence step (none when persistence was not requested), for the runs 1..k in
\* order; each record carries either a review id (only with a configured store) or a
\* non-empty error text; the step that appends a record, also one with an error,
\* leaves the status adjudicating and raises nothing; a job that ends without an
\* exception is adjudicated with num_reviews records.
C18_PersistenceIsolated ==
    /\ [](\A j \in DOMAIN jobs :
            LET p == jobs[j].persisted_reviews
            IN  /\ Len(p) = Stored(j)
                /\ \A r \in 1..Len(p) :
                      /\ p[r].run = r
                      /\ ~(("review_id" \in DOMAIN p[r]) <=> ("error" \in DOMAIN p[r]))
                      /\ "error" \in DOMAIN p[r] => p[r].error # <<>>
                      /\ "review_id" \in DOMAIN p[r] => cfg.reviews_repo # "None"
                /\ (TaskEnded(j) /\ task[j].exc = "None" /\ jobs[j].persist_to_supabase) =>
                      (jobs[j].status = "adjudicated" /\ Len(p) = jobs[j].num_reviews))
    /\ [][\A j \in DOMAIN jobs :
            jobs'[j].persisted_reviews # jobs[j].persisted_reviews =>
                /\ jobs[j].status = "adjudicating" /\ jobs'[j].status = "adjudicating"
                /\ task'[j].exc = "None" /\ task'[j].pc = "next"]_vars

\* storing failed for the first repetition and succeeded for the second; the job is
\* adjudicated
C18_Witness ==
    /\ "j1" \in DOMAIN jobs
    /\ task["j1"].pc = "done" /\ jobs["j1"].status = "adjudicated"
    /\ Len(jobs["j1"].persisted_reviews) = 2
    /\ "error" \in DOMAIN jobs["j1"].persisted_reviews[1]
    /\ "review_id" \in DOMAIN jobs["j1"].persisted_reviews[2]

ArtifactRow(r) == [run |-> r, report_md |-> <<"report", str(r)>>]

\* C19: under every failure pattern of the durable job store, a step in which a
\* durable write is performed or fails leaves the in-memory jobs, the scheduled
\* updates and every task's position as they were; the exception that ends a job is
\* never one of the store; and the status, artifacts and persisted-review count a job
\* ends with are those that its ingestion, runs and persistence steps determine,
\* the same as when the store never fails.
C19_StoreFailuresInvisible ==
    /\ [][(\/ \E j \in JobIds : Len(task'[j].io) < Len(task[j].io)
           \/ Len(detached') < Len(detached)) =>
            /\ jobs' = jobs /\ pending' = pending
            /\ \A k \in JobIds : task'[k].pc = task[k].pc /\ task'[k].exc = task[k].exc]_vars
    /\ [](\A j \in DOMAIN jobs :
            /\ task[j].exc \in {"None", IngestError.type, DebateError.type, ArtifactsError.type}
            /\ TaskEnded(j) =>
                  /\ jobs[j].status = (IF task[j].exc = "None" THEN "adjudicated" ELSE "error")
                  /\ jobs[j].artifacts = [r \in 1..Completed(j) |-> ArtifactRow(r)]
                  /\ Len(jobs[j].persisted_reviews) = Stored(j))

\* every durable write of a job failed; the job is adjudicated with both artifacts
\* and both stored reviews
C19_Witness ==
    /\ cfg.failing = WriteKinds
    /\ "j1" \in DOMAIN jobs
    /\ task["j1"].pc = "done" /\ jobs["j1"].status = "adjudicated"
    /\ Len(jobs["j1"].artifacts) = 2 /\ Len(jobs["j1"].persisted_reviews) = 2
    /\ job_rows = <<>> /\ job_events = <<>>

\* the step is one of job a: of its task, or of a progress update scheduled for it
StepOf(a) == task'[a] # task[a] \/ pending'[a] # pending[a]

C21_RowsImmutable ==
    [][/\ IsPrefix(db.verdict_versions, db'.verdict_versions)
       /\ IsPrefix(db.agent_messages, db'.agent_messages)]_vars

\* feedback was added to a review that has messages and two verdict versions
C21_Witness ==
    \E c \in Clients :
        /\ cl[c].result.t = "returned"
        /\ cl[c].result.op = "add_human_feedback"
        /\ Len(SelectEq(db.verdict_versions, "review_id", cl[c].result.review_id)) = 2
        /\ SelectEq(db.agent_messages, "review_id", cl[c].result.review_id) # <<>>
        /\ SelectEq(db.human_feedback, "review_id", cl[c].result.review_id) # <<>>

PhaseSet == { DebatePhase[k] : k \in 1..Len(DebatePhase) }
\* the inputs of the walk so far, and the results, position by position
WalkArgs == <<walk.start>> \o walk.trail

\* C22: advance_phase returns a phase for every input; for Complete and for an input
\* without a mapping it returns Complete, so Complete is never left; applied again and
\* again from Initialization it returns the phases in their declared order, Complete
\* at the ninth application and from then on; from no input does it return to a phase
\* (other than Complete) that the walk has already been in.
C22_AdvancePhaseChain ==
    /\ \A k \in 1..Len(walk.trail) :
          /\ walk.trail[k] \in PhaseSet
          /\ WalkArgs[k] \notin PhaseSet \ {COMPLETE} => walk.trail[k] = COMPLETE
    /\ \A i, j \in 1..Len(WalkArgs) :
          (i < j /\ WalkArgs[i] = WalkArgs[j]) => WalkArgs[j] = COMPLETE
    /\ walk.start = INITIALIZATION =>
          \A k \in 1..Len(WalkArgs) :
              WalkArgs[k] = DebatePhase[IF k < Len(DebatePhase) THEN k ELSE Len(DebatePhase)]

\* nine applications from Initialization gave Complete, and so did the tenth
C22_Witness ==
    /\ walk.start = INITIALIZATION
    /\ Len(walk.trail) = 10
    /\ walk.trail[8] = SYNTHESIS
    /\ walk.trail[9] = COMPLETE
    /\ walk.trail[10] = COMPLETE

\* position of a phase in the total order of DebatePhase
PhaseRank(p) == CHOOSE k \in 1..Len(DebatePhase) : DebatePhase[k] = p

TaskFinished(j) == task[j].pc = "done"

\* C24: after a job task has finished, whether the job ended adjudicated or in error,
\* the registry of progress callbacks has no entry under the thread id of that job;
\* once the tasks of all submitted jobs have finished the registry is empty; and
\* unregistering a thread id that has no entry leaves the registry as it is.
C24_CallbackReleased ==
    /\ \A j \in JobIds : TaskFinished(j) =>
          /\ jobs[j].status \in {"adjudicated", "error"}
          /\ thread_id_of(j) \notin DOMAIN callbacks
    /\ (\A j \in DOMAIN jobs : TaskFinished(j)) => DOMAIN callbacks = {}
    /\ \A j \in JobIds : thread_id_of(j) \notin DOMAIN callbacks =>
          unregister_progress_callback(callbacks, thread_id_of(j)) = callbacks

\* two jobs have finished, one adjudicated and one in error, and the registry is empty
C24_Witness ==
    /\ \A j \in JobIds : TaskFinished(j)
    /\ \E j, k \in JobIds : jobs[j].status = "adjudicated" /\ jobs[k].status = "error"
    /\ DOMAIN callbacks = {}

\* the rows of a table of db that belong to a review
RowsOf(d, table, review_id) == SelectEq(d[table], "review_id", review_id)

\* the call of store_review_state by client c ends in this step
StoreCallEnds(c) ==
    /\ cl[c].pc # "idle"
    /\ cl[c].arg.op = "store_review_state"
    /\ cl'[c].pc = "idle"

\* C25: every call of store_review_state adds exactly one review row, linked to the
\* document of the run, with the messages of the run under it and exactly one verdict
\* version numbered 1; distinct calls give distinct reviews; there is never more than
\* one document row for a key, and a document row, once inserted, is never changed.
C25_StoreOnce ==
    /\ [](\A c \in Clients : cl[c].result.t # "none" /\ cl[c].result.op = "store_review_state" =>
            /\ Len(SelectEq(db.reviews, "id", cl[c].result.review_id)) = 1
            /\ Len(SelectEq(RowsOf(db, "verdict_versions", cl[c].result.review_id), "version", 1)) = 1
            /\ \A d \in Clients \ {c} :
                  (cl[d].result.t # "none" /\ cl[d].result.op = "store_review_state") =>
                      cl[d].result.review_id # cl[c].result.review_id)
    /\ [](\A i, j \in 1..Len(db.papers) : db.papers[i].arxiv_id = db.papers[j].arxiv_id => i = j)
    /\ [](\A i, j \in 1..Len(db.reviews) : db.reviews[i].id = db.reviews[j].id => i = j)
    /\ [][/\ IsPrefix(db.papers, db'.papers)
          /\ \A c \in Clients : (StoreCallEnds(c) /\ cl'[c].result.t = "returned") =>
                LET state == cl[c].arg.state
                    review == SelectEq(db'.reviews, "id", cl[c].review_id)
                    rows == RowsOf(db', "agent_messages", cl[c].review_id)
                IN  /\ Len(review) = 1
                    /\ \E k \in 1..Len(db'.papers) :
                          /\ db'.papers[k].id = review[1].paper_id
                          /\ db'.papers[k].arxiv_id = state.paper.arxiv_id
                    /\ Len(rows) = Len(state.messages)
                    /\ \A k \in 1..Len(rows) :
                          /\ rows[k].agent = state.messages[k].agent
                          /\ rows[k].phase = state.messages[k].phase
                          /\ rows[k].content = state.messages[k].content
                    /\ Len(RowsOf(db', "verdict_versions", cl[c].review_id)) = 1]_vars

\* the rows that deliveries of a write have left in its table
RowsLeftBy(write) ==
    IF write.w = "create_verdict_version"
    THEN SelectSeq(db.verdict_versions,
                   LAMBDA r : r.review_id = write.review_id /\ r.version = write.version)
    ELSE SelectSeq(job_events,
                   LAMBDA r : /\ r.job_id = write.job_id
                              /\ r.event_type = write.data.event_type
                              /\ r.payload = write.data.payload)

\* C26: a durable write that is performed two or more times leaves what performing
\* it once leaves: never more than one verdict-version row for a (review id, version),
\* never more than one event row for a job event.
C26_WritesIdempotent ==
    \A write \in DeliverWrites : Len(RowsLeftBy(write)) <= 1

\* the statuses carried by the 'state' events of job j, in the order of the log
StateEvents(j) ==
    LET evs == SelectSeq(job_events, LAMBDA ev : ev.job_id = j /\ ev.event_type = "state")
    IN  [ k \in 1..Len(evs) |-> evs[k].payload.status ]

DurableAndSound == cfg.jobs_repo # "None" /\ cfg.failing = {}

\* C27: with a durable store and no failed write, the 'state' events of a job are, in
\* this order, submitted, adjudicating and then one of adjudicated or error, and
\* nothing after it; whenever the job task awaits no write (and so once it has
\* finished) the status of the last 'state' event is the status of the job and all
\* three events are there at the end; events are only ever added at the end of the log.
C27_StatusFromEvents ==
    /\ [](DurableAndSound =>
            \A j \in DOMAIN jobs :
                /\ \E last \in {"adjudicated", "error"} :
                      IsPrefix(StateEvents(j), <<"submitted", "adjudicating", last>>)
                /\ task[j].io = <<>> =>
                      /\ StateEvents(j) # <<>>
                      /\ StateEvents(j)[Len(StateEvents(j))] = jobs[j].status
                /\ TaskFinished(j) => Len(StateEvents(j)) = 3)
    /\ [][IsPrefix(job_events, job_events')]_vars

\* a job that ended in error after progress events were logged: three 'state' events
C27_Witness ==
    \E j \in DOMAIN jobs :
        /\ DurableAndSound
        /\ TaskFinished(j)
        /\ StateEvents(j) = <<"submitted", "adjudicating", "error">>
        /\ jobs[j].status = "error"
        /\ \E k \in 1..Len(job_events) : job_events[k].event_type = "agent_message"

\* C28: with a fair event loop and calls that return or raise, every job that has been
\* submitted reaches status adjudicated or error and its task runs to its end, however
\* many jobs run at the same time.
C28_JobsTerminate ==
    \A j \in JobIds :
        (j \in DOMAIN jobs) ~>
            (j \in DOMAIN jobs /\ jobs[j].status \in {"adjudicated", "error"} /\ TaskFinished(j))

\* two jobs were running at the same time and both have reached their end
C28_Witness ==
    /\ \A j \in JobIds : TaskFinished(j) /\ jobs[j].status \in {"adjudicated", "error"}
    /\ cfg.max_jobs = 2

\* C29: whatever integer was submitted as the repetition count, the job's num_reviews
\* is in 1..6: 1 for a count below 1, 6 for a count above 6, the count itself
\* otherwise; and the job never starts a repetition beyond num_reviews, nor records
\* more results than that.
C29_RepetitionsClamped ==
    \A j \in DOMAIN jobs :
        LET asked == task[j].asked
            num_reviews == jobs[j].num_reviews
        IN  /\ num_reviews \in 1..6
            /\ asked < 1 => num_reviews = 1
            /\ asked > 6 => num_reviews = 6
            /\ asked \in 1..6 => num_reviews = asked
            /\ task[j].i <= num_reviews
            /\ jobs[j].current_run <= num_reviews
            /\ Len(jobs[j].artifacts) <= num_reviews

\* nine repetitions were asked for; the job ran six and is adjudicated
C29_Witness ==
    \E j \in DOMAIN jobs :
        /\ task[j].asked = 9
        /\ jobs[j].num_reviews = 6
        /\ jobs[j].status = "adjudicated"
        /\ Len(jobs[j].artifacts) = 6
        /\ TaskFinished(j)

\* the Deliberation messages of the log, in log order
DeliberationMessages == SelectSeq(st.messages, LAMBDA m : m.phase = DELIBERATION)

AgentsOf(ms) == [ k \in 1..Len(ms) |-> ms[k].agent ]

\* the deliberate node has run and did not raise
Deliberated ==
    /\ \E k \in 1..Len(st.phase_log) : st.phase_log[k] = DELIBERATION
    /\ st.exc = NoExc

\* every Deliberation message is the logged answer of one runner call, and the
\* calls were made one after another in the order of the log
InvokedInLogOrder(ms) ==
    /\ \A k \in 1..Len(ms) : ms[k].model = "llm" /\ ms[k].inv \in 1..st.calls
    /\ \A k \in 1..(Len(ms) - 1) : ms[k + 1].inv = ms[k].inv + 1

\* C30 (as stated): once Deliberation has run, the runner was invoked exactly once
\* for each of methodologist, evidence auditor, paradigm challenger, skeptic and
\* incentives analyst, in that order, the moderator was not invoked, and the
\* Deliberation messages are in the log in that order.
C30_DeliberationExcludesModerator ==
    Deliberated =>
        /\ AgentsOf(DeliberationMessages) =
               <<METHODOLOGIST, EVIDENCE_AUDITOR, PARADIGM_CHALLENGER, SKEPTIC,
                 INCENTIVES_ANALYST>>
        /\ InvokedInLogOrder(DeliberationMessages)

\* C30 (amended): once Deliberation has run, the runner was invoked exactly once
\* for each participant role of the phase, the moderator included and first, one
\* after another in the declared order (moderator, methodologist, evidence auditor,
\* paradigm challenger, skeptic, incentives analyst), and the Deliberation messages
\* are in the log in that same order.
C30_DeliberationOrder ==
    Deliberated =>
        /\ AgentsOf(DeliberationMessages) =
               <<MODERATOR, METHODOLOGIST, EVIDENCE_AUDITOR, PARADIGM_CHALLENGER,
                 SKEPTIC, INCENTIVES_ANALYST>>
        /\ InvokedInLogOrder(DeliberationMessages)

\* a run that went through Deliberation to its end, six Deliberation messages logged
C30_Witness ==
    /\ Deliberated
    /\ node = "END"
    /\ Len(DeliberationMessages) = 6
    /\ DeliberationMessages[1].agent = MODERATOR

\* C31: a step of the ProgressEvaluation node keeps every key evidence_findings held,
\* with its value; every key it adds starts with "progress::"; and it leaves the
\* claims, the methodological findings, the COI findings and the verdict as they were.
C31_ProgressMergeAdditive ==
    [][ node = "evaluate_progress" =>
          /\ \A key \in DOMAIN st.evidence_findings :
                /\ key \in DOMAIN st'.evidence_findings
                /\ st'.evidence_findings[key] = st.evidence_findings[key]
          /\ \A key \in DOMAIN st'.evidence_findings \ DOMAIN st.evidence_findings :
                Len(key) >= 1 /\ key[1] = "progress::"
          /\ st'.enumerated_claims = st.enumerated_claims
          /\ st'.methodological_findings = st.methodological_findings
          /\ st'.coi_findings = st.coi_findings
          /\ st'.verdict = st.verdict ]_vars

\* the phase has run on a state that already held "progress::k": the value from the
\* evidence review is still there and the new key "progress::overall" was added
C31_Witness ==
    /\ node = "deliberate"
    /\ <<"progress::", "k">> \in DOMAIN st.evidence_findings
    /\ st.evidence_findings[<<"progress::", "k">>] = T("from evidence")
    /\ <<"progress::", "overall">> \in DOMAIN st.evidence_findings
    /\ st.evidence_findings[<<"progress::", "overall">>] = T("useful")

\* the job's task is between setting the TLS toggle and the return of ingest_arxiv_paper
Ingesting(j) == task[j].pc \in {"normalizing", "ingesting"}

\* C32: while a job that did not allow insecure TLS is ingesting, SCIJUDGE_INSECURE_SSL
\* is not set; while a job that allowed it is ingesting, it is set; and once every
\* submitted job has finished the variable has the value it had before any job started.
C32_TlsToggleScoped ==
    /\ \A j \in DOMAIN jobs :
          Ingesting(j) => environ = (IF jobs[j].allow_insecure_tls THEN "1" ELSE "unset")
    /\ (jobs # <<>> /\ \A j \in DOMAIN jobs : TaskFinished(j)) => environ = "unset"

\* the phase the node that ran last set on entry (the last recorded transition)
PhaseSetBy(s) == s.phase_transitions[Len(s.phase_transitions)][1]

\* C33: along the edges of the graph, the phase a node sets is advance_phase of the
\* phase its predecessor set, and when synthesize finishes the phase is
\* advance_phase(Synthesis), which is Complete.
C33_GraphAgreesWithPhases ==
    /\ [][ (node # node' /\ st.phase_transitions # <<>>) =>
              PhaseSetBy(st') = advance_phase(PhaseSetBy(st)) ]_vars
    /\ [][ (node = "synthesize" /\ node' = "END") =>
              /\ PhaseSetBy(st') = SYNTHESIS
              /\ st'.phase = advance_phase(SYNTHESIS)
              /\ st'.phase = COMPLETE ]_vars

\* the graph has been walked from its entry point to END: nine nodes set nine phases
\* and the run is in the phase after Synthesis
C33_Witness ==
    /\ node = "END"
    /\ Len(st.phase_transitions) = 9
    /\ PhaseSetBy(st) = SYNTHESIS
    /\ st.phase = advance_phase(PhaseSetBy(st))

\* the error text of a job is empty: None, or the empty string
NoErrorText(job) == job.error = JNull \/ (job.error.t = "str" /\ job.error.v = <<>>)

\* C34: in every state, a job whose status is "adjudicated" has step "complete", a job
\* whose status is "error" has step "error" and a non-empty error text, and a job
\* whose status is not "error" has no error text.
C34_TerminalStepAgrees ==
    \A j \in DOMAIN jobs :
        /\ jobs[j].status = "adjudicated" => jobs[j].step = T("complete")
        /\ jobs[j].status = "error" =>
              (jobs[j].step = T("error") /\ ~NoErrorText(jobs[j]))
        /\ jobs[j].status # "error" => NoErrorText(jobs[j])

\* the phases whose node leaves a product that can_advance asks for
GatedPhases ==
    { INITIALIZATION, CLAIM_ENUMERATION, METHODOLOGICAL_REVIEW, EVIDENCE_REVIEW,
      COI_REVIEW, VERDICT_ASSIGNMENT }

\* C35: whatever the agents returned, when the node of Initialization, ClaimEnumeration,
\* MethodologicalReview, EvidenceReview, CoiReview or VerdictAssignment has returned
\* normally, can_advance holds of the state it leaves, and it holds of the final
\* state of a completed run.
C35_CanAdvanceAtBoundaries ==
    /\ (st.exc = NoExc /\ st.phase \in GatedPhases) => can_advance(st)
    /\ node = "END" => can_advance(st)

\* the methodology review has returned normally after a payload that was not JSON:
\* the placeholder note is what makes can_advance hold
C35_Witness ==
    /\ node = "review_evidence"
    /\ st.exc = NoExc
    /\ st.phase = METHODOLOGICAL_REVIEW
    /\ st.last_raw = JNull
    /\ can_advance(st)

\* the verdicts that agree with the given one on soundness, evidence strength and
\* overreach risk, with every novelty, contribution and one of two rationales, as
\* VerdictDimension objects and as mappings
VerdictsAgreeingWithGiven ==
    LET ms == PubAxis("methodological_soundness")
        es == PubAxis("evidence_strength")
        ro == PubAxis("risk_of_overreach")
    IN  { VerdictDimension(ms, es, nv, sc, ro, r) :
             nv \in 1..5, sc \in 1..5, r \in { <<>>, T("because") } }
        \cup { VerdictPayload(ms, es, nv, sc, ro) : nv \in 1..5, sc \in 1..5 }

\* C36: the result of evaluate_publishability for a verdict is the result for every
\* verdict with the same soundness, evidence strength and overreach risk and the same
\* two lists, whatever its novelty, contribution and rationale (decision, publishable,
\* provisional, gates and reasons are all equal); and a call leaves its arguments as
\* they were.
C36_DependsOnThreeAxes ==
    /\ [](( PubReturned /\ PubVerdictGiven ) =>
            \A w \in VerdictsAgreeingWithGiven :
                evaluate_publishability(w, pub_in.extraction_limitations,
                                        pub_in.principle_violations) = pub_out)
    /\ [][ pub_in' = pub_in ]_vars

\* a call has returned revise_resubmit for a verdict with novelty 5 and contribution 1
C36_Witness ==
    /\ PubReturned
    /\ pub_in.verdict = VerdictDimension(4, 2, 5, 1, 2, T("because"))
    /\ pub_out.decision = "revise_resubmit"
    /\ pub_out = evaluate_publishability(VerdictDimension(4, 2, 1, 5, 2, <<>>),
                                         pub_in.extraction_limitations,
                                         pub_in.principle_violations)

\* the products a fallback leaves in the run state: the heuristic claims of the
\* document (or its abstract), a placeholder note as the only finding of the
\* methodology or evidence review, the COI placeholder, the placeholder verdict
HeuristicClaimsUsed(s) ==
    s.enumerated_claims = (IF s.paper.claims # <<>> THEN s.paper.claims ELSE <<s.paper.abstract>>)

PlaceholderNoteUsed(s) ==
    \/ s.methodological_findings =
          T("note") :> T("Methodology review unavailable (LLM JSON parse failed).")
    \/ s.evidence_findings =
          T("note") :> T("Evidence review unavailable (LLM JSON parse failed).")

CoiPlaceholderUsed(s) ==
    s.coi_findings = T("coi_report") :> T("COI enrichment not executed (event loop constraint).")

PlaceholderVerdictUsed(s) ==
    s.verdict = VerdictDimension(3, 3, 3, 3, 3,
                    T("Verdict JSON parse failed; placeholder scores used."))

FallbackUsed(s) ==
    \/ HeuristicClaimsUsed(s)
    \/ PlaceholderNoteUsed(s)
    \/ CoiPlaceholderUsed(s)
    \/ PlaceholderVerdictUsed(s)

\* evaluate_publishability on the verdict, limitations and violations of a run state
PublishabilityOf(s) ==
    evaluate_publishability(s.verdict, JList(s.extraction_limitations),
                            JList(s.principle_violations))

Storing(c) == cl[c].pc # "idle" /\ cl[c].arg.op = "store_review_state"

\* C38: when a call of store_review_state ends, returning or raising, the review it
\* inserted (if it got that far) has a verdict version numbered 1 and all the
\* messages of its run; and while no call of store_review_state is in progress, every
\* review row of the store has a verdict version numbered 1.
C38_StoreAllOrNothing ==
    /\ [][ \A c \in Clients : (StoreCallEnds(c) /\ cl[c].review_id # NoId) =>
              /\ SelectEq(RowsOf(db', "verdict_versions", cl[c].review_id), "version", 1) # <<>>
              /\ Len(RowsOf(db', "agent_messages", cl[c].review_id))
                    = Len(cl[c].arg.state.messages) ]_vars
    /\ []( (\A c \in Clients : ~Storing(c)) =>
              \A r \in ReviewIds :
                  SelectEq(RowsOf(db, "verdict_versions", r), "version", 1) # <<>> )

\* C39: a status poll made after the task of a job has finished reports the job's
\* in-memory terminal status, as many artifacts as the job has in memory and the same
\* error text, whether it is answered from the durable row or from the in-memory
\* map, and whatever mirror writes to the durable store failed.
C39_PollAgreesWithTracker ==
    \A j \in DOMAIN jobs :
        (TaskFinished(j) /\ task[j].polled # NoRow) =>
            /\ task[j].polled.ok
            /\ jobs[j].status \in {"adjudicated", "error"}
            /\ task[j].polled.job.status = jobs[j].status
            /\ Len(task[j].polled.job.artifacts) = Len(jobs[j].artifacts)
            /\ task[j].polled.job.error = jobs[j].error
====
